---- MODULE Spec2Model ----
(***************************************************************************)
(* Model of the Traceon numerical backend (traceon/backend/traceon-backend.c):*)
(* the adaptive Runge-Kutta-Fehlberg particle tracer trace_particle and the *)
(* boundary-element matrix assembly fill_matrix_radial / fill_matrix_3d.    *)
(*                                                                         *)
(* Doubles are modelled as exact rationals <<n, d>> (d > 0, lowest terms).  *)
(* The only irrational operation of the tracer, pow(x, 0.2), is taken with  *)
(* the rounding of the product 0.9*h*pow(x, 0.2): the step size h has       *)
(* finitely many values, a grid of HRes steps per hmax, and a new step size  *)
(* is the grid value nearest to the exact product, as IEEE-754 rounds a     *)
(* double to the nearest representable value.  The smallest positive grid   *)
(* value plays the part of the smallest positive double.                    *)
(***************************************************************************)
EXTENDS Integers, Sequences, FiniteSets, TLC

VARIABLES
    prog,           \* the entry point that was called
    pc,             \* where the call is
    \* trace_particle: its arguments
    times_array,    \* the caller's times buffer, times_array[0] set by the caller
    positions,      \* the caller's positions buffer, positions[0] set by the caller
    field,          \* the field callback
    bounds,         \* bounds[3][2]
    atol,
    \* trace_particle: its locals
    y,              \* the current state (x, y, z, vx, vy, vz)
    hmax,
    h,
    N,
    k,              \* double k[6][6] of the trial step
    ys,             \* double ys[6][6] of the trial step
    index,          \* the stage loop's counter
    TE,             \* the truncation estimate of the trial step
    ret,            \* the value returned
    oob,            \* indices written outside the buffers (in C: undefined)
    stage_rows,     \* the rows of k and ys the trial step has read or written
    \* fill_matrix_radial and fill_matrix_3d: their arguments
    matrix,             \* the caller's matrix, by flat index
    excitation_types,   \* uint8_t excitation_types[N_lines]
    N_lines,
    N_matrix,
    lines_range_start,  \* per call
    lines_range_end,    \* per call
    excitation_values,  \* double excitation_values[N_lines]
    NDEBUG,             \* whether the build defines NDEBUG: assert is no code
    \* fill_matrix_radial and fill_matrix_3d: per call
    row,            \* the loop counter i of the row loop
    at,             \* where the call is
    written,        \* the flat indices the call stored to
    loaded,         \* the flat indices the call loaded from
    stray,          \* flat indices written outside the matrix (in C: undefined)
    \* xy_plane_intersection_2d and xy_plane_intersection_3d
    positions_p,    \* the trajectory, N_p states
    N_p,
    plane_z,        \* the argument z
    result,         \* the caller's result buffer
    hit,            \* the value returned
    scan,           \* the loop counter i
    pass,           \* which call of the caller this is
    first_point,    \* what the caller's first call returned in result
    \* the expansion evaluators
    point,          \* the argument point
    z_inter,        \* the z-grid
    N_z,
    table,          \* which table of coefficients coeff_p points to
    value,          \* the value returned
    field_out,      \* the argument field[3]
    rows_read,      \* the rows of the table that were read
    \* ellipe, ellipk
    modulus,        \* the argument k
    elliptic,       \* the value returned
    \* normal_2d, normal_3d
    vertices,       \* the arguments p1, p2 (and p3)
    normal_out,     \* the argument normal
    \* legendre, log_integral
    order,          \* the argument N of legendre
    abscissa,       \* the argument x of legendre
    legendre_value, \* the value legendre returned
    quad,           \* log_integral: the loop variables o and m, and the loop
    requested,      \* log_integral: the orders it has passed to legendre
    \* dr1_potential_radial_ring, field_radial
    target,         \* (r_0, z_0), the argument point of field_radial
    source,         \* (r, z); the segments vertices_p of field_radial
    charges,        \* field_radial: charges[i][k]
    ring_value,     \* the value returned; Ex of field_radial
    ring_at,        \* field_radial: the loop variables i and k
    elliptic_calls  \* the calls of ellipe and ellipk that were made

tracer_args == <<times_array, positions, field, bounds, atol>>

matrix_args ==
    <<excitation_types, excitation_values, NDEBUG, N_lines, N_matrix,
      lines_range_start, lines_range_end>>

matrix_vars == <<matrix, matrix_args, row, at, written, loaded, stray>>

tracer_vars == <<tracer_args, y, hmax, h, N, k, ys, index, TE, ret, oob, stage_rows>>

plane_vars == <<positions_p, N_p, plane_z, result, hit, scan, pass, first_point>>

eval_vars == <<point, z_inter, N_z, table, value, field_out, rows_read>>

ellip_vars == <<modulus, elliptic>>

ring_vars == <<target, source, charges, ring_value, ring_at, elliptic_calls>>

kernel_vars ==
    <<vertices, normal_out, order, abscissa, legendre_value, quad, requested, ring_vars>>

function_vars == <<plane_vars, eval_vars, ellip_vars, kernel_vars>>

vars == <<prog, pc, tracer_vars, matrix_vars, function_vars>>

(***************************************************************************)
(* Rational arithmetic (the model of C double arithmetic).  C evaluates an  *)
(* operand once: the operators bind theirs to a value (p \in {<<a, b>>})    *)
(* before they use them.                                                    *)
(***************************************************************************)
Abs(n) == IF n < 0 THEN -n ELSE n

RECURSIVE GCD(_, _)
GCD(a, b) ==
    IF b = 0 THEN a
    ELSE CHOOSE g \in {GCD(p[1], p[2]) : p \in {<<b, a % b>>}} : TRUE

\* n/d in lowest terms with a positive denominator (d # 0)
Rat(n, d) ==
    CHOOSE r \in { <<((IF p[2] < 0 THEN -1 ELSE 1) * p[1]) \div p[3], Abs(p[2]) \div p[3]>> :
                      p \in {<<n, d, GCD(Abs(n), Abs(d))>>} } : TRUE

Zero == <<0, 1>>
One == <<1, 1>>

Add(a, b) ==
    CHOOSE r \in { Rat(p[1][1] * (p[2][2] \div p[3]) + p[2][1] * (p[1][2] \div p[3]),
                       (p[1][2] \div p[3]) * p[2][2]) :
                      p \in {<<q[1], q[2], GCD(q[1][2], q[2][2])>> : q \in {<<a, b>>}} } : TRUE

Neg(a) == CHOOSE r \in {<<-p[1], p[2]>> : p \in {a}} : TRUE

Sub(a, b) == Add(a, Neg(b))

Mul(a, b) ==
    CHOOSE r \in { IF p[1][1] = 0 \/ p[2][1] = 0 THEN Zero
                      ELSE <<(p[1][1] \div p[3]) * (p[2][1] \div p[4]),
                             (p[1][2] \div p[4]) * (p[2][2] \div p[3])>> :
                      p \in { <<q[1], q[2], GCD(Abs(q[1][1]), q[2][2]),
                                              GCD(Abs(q[2][1]), q[1][2])>> :
                                  q \in {<<a, b>>} } } : TRUE

\* a / b for b # 0
Div(a, b) == CHOOSE r \in {Mul(p[1], Rat(p[2][2], p[2][1])) : p \in {<<a, b>>}} : TRUE

\* p/q <= r/s for p, r >= 0 and q, s > 0, by continued fractions: no product
\* is formed, so the comparison cannot overflow
RECURSIVE LeqPos(_, _, _, _)
LeqPos(p, q, r, s) ==
    \E t \in {<<p, q, r, s>>} :
        IF (t[1] \div t[2]) # (t[3] \div t[4]) THEN (t[1] \div t[2]) < (t[3] \div t[4])
        ELSE IF t[1] % t[2] = 0 THEN TRUE
        ELSE IF t[3] % t[4] = 0 THEN FALSE
        ELSE LeqPos(t[4], t[3] % t[4], t[2], t[1] % t[2])

Leq(a, b) ==
    \E p \in {<<a, b>>} :
        IF p[1][1] < 0 /\ p[2][1] >= 0 THEN TRUE
        ELSE IF p[1][1] >= 0 /\ p[2][1] < 0 THEN FALSE
        ELSE IF p[1][1] >= 0 THEN LeqPos(p[1][1], p[1][2], p[2][1], p[2][2])
        ELSE LeqPos(-p[2][1], p[2][2], -p[1][1], p[1][2])

Lt(a, b) == ~Leq(b, a)

fabs(a) == CHOOSE r \in {<<Abs(p[1]), p[2]>> : p \in {a}} : TRUE

\* what 0/0 gives, and every sum and product with it
NaN == <<0, 0, "NaN">>

\* fmin and fmax return the other argument when one is NaN
fmin(a, b) == CHOOSE r \in {IF p[1] = NaN THEN p[2]
                             ELSE IF p[2] = NaN THEN p[1]
                             ELSE IF Leq(p[1], p[2]) THEN p[1] ELSE p[2]
                             : p \in {<<a, b>>}} : TRUE

(***************************************************************************)
(* Bounds of the model.                                                    *)
(***************************************************************************)
\* number of grid steps per hmax to which a new step size is rounded
HRes == 4

\* the grid reaches one step above hmax, so that the clamp of fmin is visible
HCap == HRes + 1

(***************************************************************************)
(* Particle tracing: constants (traceon-backend.c, 44-52 and 260-269).     *)
(***************************************************************************)
\* a C array literal as a 0-based array
Arr(t) == [i \in 0..(Len(t) - 1) |-> t[i + 1]]

TRACING_STEP_MAX == Rat(1, 100)

\* (size_t) 1e5 in the source; scaled down so that a block can fill
TRACING_BLOCK_SIZE == 5

\* e/m in units ns and mm, -0.1758820022723908, to two significant digits
EM == Rat(-7, 40)

A == Arr(<<Zero, Rat(2, 9), Rat(1, 3), Rat(3, 4), One, Rat(5, 6)>>)
B6 == Arr(<<Rat(65, 432), Rat(-5, 16), Rat(13, 16), Rat(4, 27), Rat(5, 144)>>)
B5 == Arr(<<Rat(-17, 12), Rat(27, 4), Rat(-27, 5), Rat(16, 15)>>)
B4 == Arr(<<Rat(69, 128), Rat(-243, 128), Rat(135, 64)>>)
B3 == Arr(<<Rat(1, 12), Rat(1, 4)>>)
B2 == Arr(<<Rat(2, 9)>>)
CT == Arr(<<Rat(-1, 150), Zero, Rat(3, 100), Rat(-16, 75), Rat(-1, 20), Rat(6, 25)>>)

\* sum of f[0] .. f[n-1]
RECURSIVE SumTo(_, _)
SumTo(f, n) == IF n = 0 THEN Zero ELSE Add(SumTo(f, n - 1), f[n - 1])

\* floor of the square root of a natural number
ISqrt(n) == CHOOSE r \in 0..n : r * r <= n /\ n < (r + 1) * (r + 1)

\* sqrt of a rational that is a square (the inputs of the model are)
sqrt(a) == Rat(ISqrt(a[1]), ISqrt(a[2]))

norm_3d(x, y_, z) == sqrt(Add(Add(Mul(x, x), Mul(y_, y_)), Mul(z, z)))

(***************************************************************************)
(* The field callback.  The model's fields are piecewise constant in z:    *)
(* ff.lo below the plane z = ff.z0 and ff.hi from it on (zero and uniform   *)
(* fields are the cases lo = hi).                                           *)
(***************************************************************************)
field_fun(ff, pos) == IF Lt(pos[2], ff.z0) THEN ff.lo ELSE ff.hi

(***************************************************************************)
(* One trial step of the Runge-Kutta-Fehlberg scheme.                      *)
(***************************************************************************)
\* a double[6] with the elements f[0] .. f[5], each evaluated once
Array6(f) ==
    (0 :> f[0]) @@ (1 :> f[1]) @@ (2 :> f[2]) @@ (3 :> f[3]) @@ (4 :> f[4]) @@ (5 :> f[5])

\* double k[6][6] = { {0.} }
ZeroStages == Array6([j \in 0..5 |-> Array6([i \in 0..5 |-> Zero])])

\* row index of ys: y plus the tableau row applied to the earlier rows of ks
produce_new_y(y_, ys_, ks, index_) ==
    LET coefficients == [j \in 1..5 |->
                            CASE j = 1 -> B2 [] j = 2 -> B3 [] j = 3 -> B4
                              [] j = 4 -> B5 [] j = 5 -> B6]
    IN  [ys_ EXCEPT ![index_] =
            Array6([i \in 0..5 |->
                Add(y_[i], SumTo([j \in 0..(index_ - 1) |->
                                    Mul(coefficients[index_][j], ks[j][i])], index_))])]

\* a faulty stage: the velocity is read from the previous row of ks
produce_new_k_previous(ys_, ks, index_, h_, ff) ==
    LET E == field_fun(ff, ys_[index_])
    IN  [ks EXCEPT ![index_] =
            Array6([i \in 0..5 |->
                IF i < 3
                THEN Mul(h_, IF index_ = 0 THEN ys_[index_][3 + i] ELSE ks[index_ - 1][3 + i])
                ELSE Mul(Mul(h_, EM), E[i - 3])])]

\* row index of ks: h times the right-hand side at ys[index]
produce_new_k(ys_, ks, index_, h_, ff) ==
    LET E == field_fun(ff, ys_[index_])
    IN  [ks EXCEPT ![index_] =
            Array6([i \in 0..5 |->
                IF i < 3 THEN Mul(h_, ys_[index_][3 + i])
                ELSE Mul(Mul(h_, EM), E[i - 3])])]

\* TE = max over the components i < n of |sum_j CT[j]*k[j][i]|
RECURSIVE TruncationError(_, _)
TruncationError(ks, n) ==
    IF n = 0 THEN Zero
    ELSE CHOOSE r \in { IF Lt(p[1], p[2]) THEN p[2] ELSE p[1] :
                           p \in { <<TruncationError(ks, n - 1),
                                     fabs(SumTo([j \in 0..5 |-> Mul(CT[j], ks[j][n - 1])], 6))>> }
                       } : TRUE

\* y[i] += CH[0]*k[0][i] + ... + CH[5]*k[5][i], CH that of line 268
NewState(y_, ks) ==
    LET CH_ == Arr(<<Rat(47, 450), Zero, Rat(12, 25), Rat(32, 225), Rat(1, 30), Rat(6, 25)>>)
    IN  Array6([i \in 0..5 |->
            Add(y_[i], SumTo([j \in 0..5 |-> Mul(CH_[j], ks[j][i])], 6))])

RECURSIVE Pow5(_, _)
Pow5(q, n) == IF n = 0 THEN One ELSE Mul(q, Pow5(q, n - 1))

\* 0.9 * h * pow(x, 0.2) for h > 0, rounded to the nearest value of the grid
\* of hmax/HRes, a tie to the even one: m*hmax/HRes is not above the product
\* rounded iff ((m - 1/2)*hmax/HRes / (0.9*h))^5 <= x
ScaledStep(h_, x, hmax_) ==
    LET half(m) == Pow5(Div(Mul(Rat(10 * (2 * m - 1), 18 * HRes), hmax_), h_), 5)
        reached(m) == m = 0 \/ Leq(half(m), x)
        c == CHOOSE a \in 0..HCap :
                 /\ reached(a)
                 /\ \A b \in (a + 1)..HCap : ~reached(b)
        tie == c > 0 /\ half(c) = x
    IN  Mul(Rat(IF tie /\ c % 2 = 1 THEN c - 1 ELSE c, HRes), hmax_)

\* a faulty step-size update: the result is not clamped to hmax
NextStepSize_unclamped(h_, TE_, atol_, hmax_) ==
    IF TE_ = Zero THEN hmax_
    ELSE IF h_ = Zero THEN Zero
    ELSE ScaledStep(h_, Div(atol_, TE_), hmax_)

\* h = fmin(0.9 * h * pow(atol / TE, 0.2), hmax); with TE = 0 the quotient
\* is infinite (or NaN) and fmin returns hmax
NextStepSize(h_, TE_, atol_, hmax_) ==
    IF TE_ = Zero THEN hmax_
    ELSE IF h_ = Zero THEN Zero
    ELSE fmin(ScaledStep(h_, Div(atol_, TE_), hmax_), hmax_)

\* a faulty loop condition: the upper bound of z is not tested
LoopCondition_open(y_, bounds_) ==
    /\ Leq(bounds_[0][0], y_[0]) /\ Leq(y_[0], bounds_[0][1])
    /\ Leq(bounds_[1][0], y_[1]) /\ Leq(y_[1], bounds_[1][1])
    /\ Leq(bounds_[2][0], y_[2])

\* the condition of the while loop: y inside the box, the bounds inclusive
LoopCondition(y_, bounds_) ==
    /\ Leq(bounds_[0][0], y_[0]) /\ Leq(y_[0], bounds_[0][1])
    /\ Leq(bounds_[1][0], y_[1]) /\ Leq(y_[1], bounds_[1][1])
    /\ Leq(bounds_[2][0], y_[2]) /\ Leq(y_[2], bounds_[2][1])

(***************************************************************************)
(* The inputs of trace_particle the model explores.                        *)
(***************************************************************************)
Vec(t) == Arr(t)

\* what the buffers hold where neither the caller nor the tracer wrote
Garbage == <<0, 0>>

GarbageState == Array6([i \in 0..5 |-> Garbage])

StartStates ==
    { Array6([i \in 0..5 |-> IF i < 3 THEN p[i] ELSE v[i - 3]]) :
        p \in { Vec(<<Zero, Zero, Zero>>), Vec(<<Zero, Zero, Rat(-1, 100)>>) },
        v \in { Vec(<<Zero, Zero, One>>), Vec(<<Zero, Zero, Rat(2, 1)>>),
                Vec(<<One, Zero, Zero>>) } }

\* the box [lo, hi] x [lo, hi] x [0, hi]
Box(lo, hi) ==
    (0 :> ((0 :> lo) @@ (1 :> hi))) @@ (1 :> ((0 :> lo) @@ (1 :> hi))) @@
    (2 :> ((0 :> Zero) @@ (1 :> hi)))

FieldAt(z0, e1, e2) ==
    [z0 |-> z0, lo |-> (0 :> Zero) @@ (1 :> Zero) @@ (2 :> e1),
                hi |-> (0 :> Zero) @@ (1 :> Zero) @@ (2 :> e2)]

(***************************************************************************)
(* trace_particle.                                                         *)
(***************************************************************************)
\* lines 305-318: the state on reaching the while loop
TraceStart(y0, b, ff, tol, t0, step) ==
    /\ positions = [i \in 0..(TRACING_BLOCK_SIZE - 1) |->
                        IF i = 0 THEN y0 ELSE GarbageState]
    /\ times_array = [i \in 0..(TRACING_BLOCK_SIZE - 1) |->
                        IF i = 0 THEN t0 ELSE Garbage]
    /\ field = ff
    /\ bounds = b
    /\ atol = tol
    /\ y = y0
    /\ hmax = Div(step, norm_3d(y0[3], y0[4], y0[5]))
    /\ h = Div(step, norm_3d(y0[3], y0[4], y0[5]))
    /\ N = 1
    /\ k = ZeroStages
    /\ ys = ZeroStages
    /\ index = 0
    /\ TE = Zero
    /\ ret = 0
    /\ oob = {}
    /\ stage_rows = {}

TraceInit ==
    \E y0 \in StartStates :
    \E b \in { Box(Rat(-1, 1), One), Box(Rat(-3, 200), Rat(3, 200)),
               Box(Rat(-3, 100), Rat(3, 100)) } :
    \* EM times the strengths 160/7, 16000/7 and -160000/7 is -4, -400 and
    \* 4000 mm/ns^2
    \E ff \in { FieldAt(Rat(1, 200), Zero, Zero),
                FieldAt(Rat(1, 200), Rat(16000, 7), Rat(16000, 7)),
                FieldAt(Rat(1, 200), Zero, Rat(160, 7)),
                FieldAt(Rat(1, 200), Zero, Rat(16000, 7)),
                FieldAt(Rat(1, 200), Zero, Rat(-160000, 7)) } :
    \E tol \in { Rat(1, 10), Rat(1, 1000) }, t0 \in { Rat(5, 1) } :
        TraceStart(y0, b, ff, tol, t0, TRACING_STEP_MAX)

\* the tracer's variables while another entry point runs
TraceIdle ==
    TraceStart(Array6([i \in 0..5 |-> IF i = 5 THEN One ELSE Zero]), Box(Rat(-1, 1), One),
               FieldAt(Zero, Zero, Zero), One, Zero, TRACING_STEP_MAX)

\* a faulty store: the sample goes to the slot of the previous one
Store_previous(arr, i, v) == IF i - 1 \in DOMAIN arr THEN [arr EXCEPT ![i - 1] = v] ELSE arr

\* arr[i] = v
Store(arr, i, v) == IF i \in DOMAIN arr THEN [arr EXCEPT ![i] = v] ELSE arr

\* a faulty acceptance test: the tolerance is taken ten times too large
Accepted_loose(TE_, atol_) == Leq(TE_, Mul(Rat(10, 1), atol_))

\* line 341: if(TE <= atol)
Accepted(TE_, atol_) == Leq(TE_, atol_)

\* a faulty time stamp: the step is added to the start time
NewTime_from_start(times, n, h_) == Add(times[0], h_)

\* line 345: times_array[N-1] + h
NewTime(times, n, h_) == Add(times[n - 1], h_)

\* a faulty block test: the return comes one sample late
BlockFull_late(n) == n = TRACING_BLOCK_SIZE + 1

\* line 349: if(N==TRACING_BLOCK_SIZE)
BlockFull(n) == n = TRACING_BLOCK_SIZE

\* a faulty return value: the index of the last sample, not the count
ReturnValue_last(n) == n - 1

\* lines 349 and 355: return N
ReturnValue(n) == n

\* lines 321-326 (backend.c, 294-300): the loop condition holds; k and ys
\* are zeroed
EnterLoop ==
    /\ prog \in {"trace_particle", "backend.c trace_particle"} /\ pc = "loop"
    /\ LoopCondition(y, bounds)
    /\ k' = ZeroStages
    /\ ys' = ZeroStages
    /\ index' = 0
    /\ stage_rows' = {}
    /\ pc' = "stages"
    /\ UNCHANGED <<matrix_vars, function_vars, prog, tracer_args, y, hmax, h, N, TE, ret, oob>>

\* lines 328-331: one pass of the stage loop
Stage ==
    /\ prog = "trace_particle" /\ pc = "stages"
    /\ index < 6
    /\ ys' = produce_new_y(y, ys, k, index)
    /\ k' = produce_new_k(ys', k, index, h, field)
    /\ stage_rows' = stage_rows \cup (0..index)
    /\ index' = index + 1
    /\ UNCHANGED <<matrix_vars, function_vars, prog, pc, tracer_args, y, hmax, h, N, TE, ret, oob>>

\* lines 333-339: the stage loop is over; TE is computed
Estimate ==
    /\ prog = "trace_particle" /\ pc = "stages"
    /\ ~(index < 6)
    /\ TE' = TruncationError(k, 6)
    /\ pc' = "decide"
    /\ UNCHANGED <<matrix_vars, function_vars, prog, tracer_args, y, hmax, h, N, k, ys, index, ret, oob, stage_rows>>

\* lines 341-352, TE <= atol: the step is stored; the block may be full
AcceptStep ==
    /\ prog = "trace_particle" /\ pc = "decide"
    /\ Accepted(TE, atol)
    /\ y' = NewState(y, k)
    /\ positions' = Store(positions, N, y')
    /\ times_array' = Store(times_array, N, NewTime(times_array, N, h))
    /\ oob' = oob \cup ({N} \ DOMAIN positions)
    /\ N' = N + 1
    /\ IF BlockFull(N')
       THEN /\ pc' = "returned"
            /\ ret' = ReturnValue(N')
            /\ h' = h
       ELSE /\ pc' = "loop"
            /\ ret' = ret
            /\ h' = NextStepSize(h, TE, atol, hmax)
    /\ UNCHANGED <<matrix_vars, function_vars, prog, field, bounds, atol, hmax, k, ys, index, TE,
                   stage_rows>>

\* lines 341-352, TE > atol: only the step size changes
RejectStep ==
    /\ prog = "trace_particle" /\ pc = "decide"
    /\ ~Accepted(TE, atol)
    /\ h' = NextStepSize(h, TE, atol, hmax)
    /\ pc' = "loop"
    /\ UNCHANGED <<matrix_vars, function_vars, prog, tracer_args, y, hmax, N, k, ys, index, TE, ret, oob, stage_rows>>

\* line 355 (backend.c, 331): the loop condition fails
LeaveLoop ==
    /\ prog \in {"trace_particle", "backend.c trace_particle"} /\ pc = "loop"
    /\ ~LoopCondition(y, bounds)
    /\ pc' = "returned"
    /\ ret' = ReturnValue(N)
    /\ UNCHANGED <<matrix_vars, function_vars, prog, tracer_args, y, hmax, h, N, k, ys, index, TE, oob, stage_rows>>

trace_particle == EnterLoop \/ Stage \/ Estimate \/ AcceptStep \/ RejectStep \/ LeaveLoop

(***************************************************************************)
(* The stage loop of the second file that defines trace_particle           *)
(* (backend.c, 232-306).  Its tableau is written with int quotients, its   *)
(* produce_new_k takes the velocity from the row before index, and its     *)
(* caller passes h where produce_new_k has index and index where it has h. *)
(* The start velocities of the model are above TRACING_STEP_MAX, so that   *)
(* h < 1 and (size_t) h is 0: the first stage reads the row before k, and  *)
(* what a call does after that read is undefined.                          *)
(***************************************************************************)
\* backend.c, 247-259: row index of ys; 65/432, 2/9 and the like are int
\* quotients
backend_produce_new_y(y_, ys_, ks, index_) ==
    LET coefficients == [j \in 1..5 |->
                            CASE j = 1 -> <<0>> [] j = 2 -> <<0, 0>> [] j = 3 -> <<0, -1, 2>>
                              [] j = 4 -> <<-1, 6, -5, 1>> [] j = 5 -> <<0, 0, 0, 0, 0>>]
    IN  [ys_ EXCEPT ![index_] =
            Array6([i \in 0..5 |->
                Add(y_[i], SumTo([j \in 0..(index_ - 1) |->
                                    Mul(Rat(coefficients[index_][j + 1], 1), ks[j][i])],
                                 index_))])]

\* backend.c, 261-273: row index of ks, previous being ks[index-1]
backend_produce_new_k(ys_, ks, index_, h_, ff, previous) ==
    LET E == field_fun(ff, ys_[index_])
    IN  [ks EXCEPT ![index_] =
            Array6([i \in 0..5 |->
                IF i < 3 THEN Mul(h_, previous[3 + i])
                ELSE Mul(Mul(h_, EM), E[i - 3])])]

\* backend.c, 302-305: one pass of the stage loop.  produce_new_k(ys, k, h,
\* index, field, args) converts h to the size_t index and index to the
\* double h; a row of k outside 0..5 that is read holds any double
backend_Stage ==
    /\ prog = "backend.c trace_particle" /\ pc = "stages"
    /\ index < 6
    /\ ys' = backend_produce_new_y(y, ys, k, index)
    /\ \E r \in {h[1] \div h[2]} :
       \E g \in {Zero, One} :
       \E previous \in {IF r - 1 \in 0..5 THEN k[r - 1] ELSE Array6([i \in 0..5 |-> g])} :
          /\ k' = IF r \in 0..5
                  THEN backend_produce_new_k(ys', k, r, Rat(index, 1), field, previous)
                  ELSE k
          /\ stage_rows' = stage_rows \cup (0..index) \cup {r - 1, r}
          /\ pc' = IF {r - 1, r} \subseteq 0..5 THEN pc ELSE "undefined"
    /\ index' = index + 1
    /\ UNCHANGED <<matrix_vars, function_vars, prog, tracer_args, y, hmax, h, N, TE, ret, oob>>

(***************************************************************************)
(* Matrix assembly (traceon-backend.c, 984-1133).  A cell of the matrix    *)
(* holds the expression that was stored in it: the routine that was        *)
(* integrated, target segment i and node l, source segment j and node k,   *)
(* the factor it was multiplied by (in units of 1/pi for a dielectric row), *)
(* the triangle whose normal was used (-1: none) and what was added to it   *)
(* afterwards.  The process may run several calls at once, one per thread,  *)
(* on the same matrix.                                                      *)
(***************************************************************************)
N_QUAD_2D == 8

VOLTAGE_FIXED == 1
VOLTAGE_FUN == 2
DIELECTRIC == 3
FLOATING_CONDUCTOR == 4

\* largest N_lines of the model
MaxLines == 2

\* largest number of concurrent calls of the model
MaxCalls == 2

\* the rows and columns of the matrix per line: N_QUAD_2D nodes per segment
\* in fill_matrix_radial, one per triangle in fill_matrix_3d
Q == IF prog = "fill_matrix_radial" THEN N_QUAD_2D ELSE 1

\* the tags of the concurrent calls and of the calls with a wrong shape:
\* a voltage type, the dielectric type, and one that is no type
FewTags == {VOLTAGE_FIXED, DIELECTRIC, 5}

Cell(routine, i_, l, j, c, factor, normal) ==
    [routine |-> routine, i |-> i_, l |-> l, j |-> j, k |-> c,
     factor |-> factor, normal |-> normal, plus |-> 0]

Unwritten == Cell("unwritten", 0, 0, 0, 0, One, -1)

\* the buffer stored through the writes ws, a set of <<flat index, value>>
WriteAll(buffer, ws) ==
    CHOOSE r \in
        { [c \in DOMAIN buffer |->
              IF c \in p[2] THEN (CHOOSE w \in p[1] : w[1] = c)[2] ELSE buffer[c]] :
          p \in {<<ws, {w[1] : w \in ws}>>} } : TRUE

\* the flat indices of ws that lie outside the buffer
Strays(buffer, ws) == {w[1] : w \in ws} \ DOMAIN buffer

\* the flat indices of ws
Indices(ws) == {w[1] : w \in ws}

\* lines 1027, 1104: the test of the voltage branch
IsVoltageType(type_) ==
    type_ = VOLTAGE_FIXED \/ type_ = VOLTAGE_FUN \/ type_ = FLOATING_CONDUCTOR

\* the Gauss loop without the test of line 1031 (i == j)
RadialWrites_every_block(i_, lines, width) ==
    { <<(N_QUAD_2D * i_ + l) * width + N_QUAD_2D * j + c,
        Cell("potential_radial_ring", i_, l, j, c, One, -1)>> :
        l \in 0..(N_QUAD_2D - 1), c \in 0..(N_QUAD_2D - 1),
        j \in 0..(lines - 1) }

\* lines 1028-1050: the cells of the Gauss loop for target segment i_
RadialWrites(i_, lines, width) ==
    { <<(N_QUAD_2D * i_ + l) * width + N_QUAD_2D * j + c,
        Cell("potential_radial_ring", i_, l, j, c, One, -1)>> :
        l \in 0..(N_QUAD_2D - 1), c \in 0..(N_QUAD_2D - 1),
        j \in (0..(lines - 1)) \ {i_} }

\* lines 998-1002: the cells of the diagonal block of segment i_
SelfWrites(i_, width) ==
    { <<(N_QUAD_2D * i_ + l) * width + N_QUAD_2D * i_ + c,
        Cell("log_integral", i_, l, i_, c, One, -1)>> :
        l \in 0..(N_QUAD_2D - 1), c \in 0..(N_QUAD_2D - 1) }

\* line 1109 with row and column exchanged
VoltageWrites3D_transposed(i_, lines, width) ==
    { <<j * width + i_,
        Cell("triangle_integral_potential_3d_point", i_, 0, j, 0, One, -1)>> :
        j \in 0..(lines - 1) }

\* lines 1105-1110: the cells of a voltage row of fill_matrix_3d; the
\* target is the centroid of triangle i_ (1101)
VoltageWrites3D(i_, lines, width) ==
    { <<i_ * width + j,
        Cell("triangle_integral_potential_3d_point", i_, 0, j, 0, One, -1)>> :
        j \in 0..(lines - 1) }

\* line 1122 with the other sign in the numerator
DielectricFactor_plus(K) ==
    Div(Add(Mul(Rat(2, 1), K), Rat(2, 1)), Add(One, K))

\* line 1122: factor = (2*K - 2) / (M_PI*(1 + K)), in units of 1/pi
DielectricFactor(K) ==
    Div(Sub(Mul(Rat(2, 1), K), Rat(2, 1)), Add(One, K))

\* lines 1113-1123: the cells of a dielectric row of fill_matrix_3d as
\* line 1123 stores them; the target is the centroid of triangle i_ (1101),
\* the normal that of triangle i_ (1114), K is excitation_values[i_] (1115)
DielectricWrites3D(i_, lines, width, values) ==
    { <<i_ * width + j,
        Cell("field_dot_normal_3d", i_, 0, j, 0, DielectricFactor(values[i_]), i_)>> :
        j \in 0..(lines - 1) }

\* line 1125: matrix[i*N_matrix + j] -= 1.0 for j = i, done on what the
\* cell holds
MinusOne(buffer, c) ==
    IF c \in DOMAIN buffer THEN [buffer EXCEPT ![c].plus = @ - 1] ELSE buffer

\* lines 1016, 1094: int lines_range_* compared with size_t N_lines, the
\* int converted to size_t: a negative value becomes a huge one
RangeAsserted(first, last, lines) ==
    /\ first >= 0 /\ first < lines
    /\ last >= 0 /\ last < lines

\* what all calls of one process share; the excitation values are pairwise
\* different, none of them -1
MatrixShared(lines, types, width, base, ndebug, cells) ==
    /\ N_lines = lines
    /\ N_matrix = width
    /\ matrix = [c \in 0..(cells * cells - 1) |-> Unwritten]
    /\ excitation_types = types
    /\ excitation_values = [i \in 0..(lines - 1) |-> Rat(base + i, 1)]
    /\ NDEBUG = ndebug
    /\ stray = {}

\* the calls: ranges is a sequence of <<lines_range_start, lines_range_end>>
MatrixCalls(ranges) ==
    /\ lines_range_start = [w \in DOMAIN ranges |-> ranges[w][1]]
    /\ lines_range_end = [w \in DOMAIN ranges |-> ranges[w][2]]
    /\ row = [w \in DOMAIN ranges |-> ranges[w][1]]
    /\ at = [w \in DOMAIN ranges |-> "assert"]
    /\ written = [w \in DOMAIN ranges |-> {}]
    /\ loaded = [w \in DOMAIN ranges |-> {}]

\* the ranges of n calls at once, the calls numbered by where their ranges
\* start: inclusive ranges inside 0..lines-1 that hold a row, pairwise
\* disjoint or twice the same range
CallRanges(lines, n) ==
    {ranges \in [1..n -> {r \in (0..(lines - 1)) \X (0..(lines - 1)) : r[1] <= r[2]}] :
        \/ \A w \in 1..(n - 1) : ranges[w][2] < ranges[w + 1][1]
        \/ n = 2 /\ ranges[1] = ranges[2]}

\* the calls the model explores.  The matrix the caller allocated has
\* Q*N_lines rows and columns.  One call: every tag, every range inside
\* 0..N_lines-1 (an empty one included), the four tags of the enum and two
\* that are none of them; the assertions hold, so NDEBUG
\* makes no difference.  One call whose shape arguments are wrong, one
\* short or one long in N_matrix or one row outside the lines, in either
\* build.
\* Several calls at once on the same matrix.
MatrixInit ==
    \E lines \in 1..MaxLines :
        \/ \E types \in [0..(lines - 1) -> 0..5] :
           \E first \in 0..(lines - 1), last \in 0..(lines - 1) :
           \E base \in {2, 5} :
              /\ MatrixShared(lines, types, Q * lines, base, FALSE, Q * lines)
              /\ MatrixCalls(<<<<first, last>>>>)
        \/ \E types \in [0..(lines - 1) -> FewTags] :
           \E first \in (-1)..lines, last \in (-1)..lines :
           \E width \in {Q * lines - 1, Q * lines, Q * lines + 1} :
           \E ndebug \in BOOLEAN :
              /\ ~(RangeAsserted(first, last, lines) /\ width = Q * lines)
              /\ MatrixShared(lines, types, width, 2, ndebug, Q * lines)
              /\ MatrixCalls(<<<<first, last>>>>)
        \/ \E types \in [0..(lines - 1) -> FewTags] :
           \E n \in 2..MaxCalls :
           \E ranges \in CallRanges(lines, n) :
              /\ MatrixShared(lines, types, Q * lines, 2, FALSE, Q * lines)
              /\ MatrixCalls(ranges)

\* the matrix variables while the tracer runs
MatrixIdle ==
    /\ N_lines = 0
    /\ N_matrix = 0
    /\ matrix = <<>>
    /\ excitation_types = <<>>
    /\ excitation_values = <<>>
    /\ NDEBUG = FALSE
    /\ lines_range_start = <<>>
    /\ lines_range_end = <<>>
    /\ row = <<>>
    /\ at = <<>>
    /\ written = <<>>
    /\ loaded = <<>>
    /\ stray = {}

FillingMatrix == prog \in {"fill_matrix_radial", "fill_matrix_3d"}

\* the calls of the process
Calls == DOMAIN at

\* the process after call w returned: it goes on until every call has
Joined(w) ==
    IF \A v \in Calls \ {w} : at[v] = "returned" THEN "returned" ELSE pc

\* the stores ws of call w
Stores(w, ws) ==
    /\ matrix' = WriteAll(matrix, ws)
    /\ stray' = stray \cup Strays(matrix, ws)
    /\ written' = [written EXCEPT ![w] = @ \cup Indices(ws)]

\* lines 1016-1017, 1094: the assertions of call w; fill_matrix_3d has none
\* on N_matrix
Asserted(w) ==
    /\ RangeAsserted(lines_range_start[w], lines_range_end[w], N_lines)
    /\ (prog = "fill_matrix_radial") => N_matrix = N_QUAD_2D * N_lines

\* lines 1016-1017, 1094: the assertions hold, or the build has NDEBUG and
\* they are no code
Enter(w) ==
    /\ FillingMatrix /\ pc = "calls" /\ at[w] = "assert"
    /\ NDEBUG \/ Asserted(w)
    /\ at' = [at EXCEPT ![w] = "rows"]
    /\ UNCHANGED <<prog, pc, tracer_vars, function_vars, matrix_args, matrix, stray, row,
                   written, loaded>>

\* lines 1016-1017, 1094: an assertion fails: abort() ends the process
Abort(w) ==
    /\ FillingMatrix /\ pc = "calls" /\ at[w] = "assert"
    /\ ~NDEBUG
    /\ ~Asserted(w)
    /\ pc' = "abort"
    /\ UNCHANGED <<prog, tracer_vars, function_vars, matrix_vars>>

\* lines 1021-1025, 1098-1102: the row is no line of the arrays: reading
\* excitation_types[i] and the vertices is undefined
OutOfRange(w) ==
    /\ FillingMatrix /\ pc = "calls" /\ at[w] = "rows"
    /\ row[w] <= lines_range_end[w]
    /\ row[w] \notin 0..(N_lines - 1)
    /\ pc' = "undefined"
    /\ UNCHANGED <<prog, tracer_vars, function_vars, matrix_vars>>

\* lines 1020-1052: one pass of the row loop of fill_matrix_radial; a row
\* whose type is not a voltage type is passed over
RadialRow(w) ==
    /\ prog = "fill_matrix_radial" /\ pc = "calls" /\ at[w] = "rows"
    /\ row[w] <= lines_range_end[w]
    /\ row[w] \in 0..(N_lines - 1)
    /\ IF IsVoltageType(excitation_types[row[w]])
       THEN Stores(w, RadialWrites(row[w], N_lines, N_matrix))
       ELSE UNCHANGED <<matrix, stray, written>>
    /\ row' = [row EXCEPT ![w] = @ + 1]
    /\ UNCHANGED <<prog, pc, tracer_vars, function_vars, matrix_args, at, loaded>>

\* line 1054: the row loop is over; fill_self_voltages is called
RadialRowsDone(w) ==
    /\ prog = "fill_matrix_radial" /\ pc = "calls" /\ at[w] = "rows"
    /\ ~(row[w] <= lines_range_end[w])
    /\ at' = [at EXCEPT ![w] = "fill_self_voltages"]
    /\ row' = [row EXCEPT ![w] = lines_range_start[w]]
    /\ UNCHANGED <<prog, pc, tracer_vars, function_vars, matrix_args, matrix, stray, written, loaded>>

\* lines 993-1003: one pass of the loop of fill_self_voltages
SelfVoltagesRow(w) ==
    /\ prog = "fill_matrix_radial" /\ pc = "calls" /\ at[w] = "fill_self_voltages"
    /\ row[w] <= lines_range_end[w]
    /\ Stores(w, SelfWrites(row[w], N_matrix))
    /\ row' = [row EXCEPT ![w] = @ + 1]
    /\ UNCHANGED <<prog, pc, tracer_vars, function_vars, matrix_args, at, loaded>>

\* lines 1004, 1083: fill_self_voltages and then fill_matrix_radial return
RadialReturn(w) ==
    /\ prog = "fill_matrix_radial" /\ pc = "calls" /\ at[w] = "fill_self_voltages"
    /\ ~(row[w] <= lines_range_end[w])
    /\ at' = [at EXCEPT ![w] = "returned"]
    /\ pc' = Joined(w)
    /\ UNCHANGED <<prog, tracer_vars, function_vars, matrix_args, matrix, stray, row, written, loaded>>

fill_matrix_radial ==
    \/ \E w \in Calls : RadialRow(w)
    \/ \E w \in Calls : RadialRowsDone(w)
    \/ \E w \in Calls : SelfVoltagesRow(w)
    \/ \E w \in Calls : RadialReturn(w)

\* lines 1097-1127: one pass of the row loop of fill_matrix_3d, the type known
Row3D(w) ==
    /\ prog = "fill_matrix_3d" /\ pc = "calls" /\ at[w] = "rows"
    /\ row[w] <= lines_range_end[w]
    /\ row[w] \in 0..(N_lines - 1)
    /\ \/ /\ IsVoltageType(excitation_types[row[w]])
          /\ Stores(w, VoltageWrites3D(row[w], N_lines, N_matrix))
          /\ UNCHANGED loaded
       \/ /\ ~IsVoltageType(excitation_types[row[w]])
          /\ excitation_types[row[w]] = DIELECTRIC
          /\ \E ws \in {DielectricWrites3D(row[w], N_lines, N_matrix, excitation_values)} :
             \E c \in {row[w] * N_matrix + row[w]} :
                /\ matrix' = MinusOne(WriteAll(matrix, ws), c)
                /\ stray' = stray \cup Strays(matrix, ws)
                /\ written' = [written EXCEPT ![w] = @ \cup Indices(ws)]
                /\ loaded' = [loaded EXCEPT ![w] = @ \cup {c}]
    /\ row' = [row EXCEPT ![w] = @ + 1]
    /\ UNCHANGED <<prog, pc, tracer_vars, function_vars, matrix_args, at>>

\* a faulty last branch: the row is stored as a voltage row before the exit
Unknown3D_after_stores(w) ==
    /\ prog = "fill_matrix_3d" /\ pc = "calls" /\ at[w] = "rows"
    /\ row[w] <= lines_range_end[w]
    /\ row[w] \in 0..(N_lines - 1)
    /\ ~IsVoltageType(excitation_types[row[w]])
    /\ excitation_types[row[w]] # DIELECTRIC
    /\ Stores(w, VoltageWrites3D(row[w], N_lines, N_matrix))
    /\ pc' = "exit"
    /\ UNCHANGED <<prog, tracer_vars, function_vars, matrix_args, row, at, loaded>>

\* lines 1128-1131: printf("ExcitationType unknown"); exit(1) ends the
\* process
Unknown3D(w) ==
    /\ prog = "fill_matrix_3d" /\ pc = "calls" /\ at[w] = "rows"
    /\ row[w] <= lines_range_end[w]
    /\ row[w] \in 0..(N_lines - 1)
    /\ ~IsVoltageType(excitation_types[row[w]])
    /\ excitation_types[row[w]] # DIELECTRIC
    /\ pc' = "exit"
    /\ UNCHANGED <<prog, tracer_vars, function_vars, matrix_vars>>

\* line 1133: the row loop is over
Return3D(w) ==
    /\ prog = "fill_matrix_3d" /\ pc = "calls" /\ at[w] = "rows"
    /\ ~(row[w] <= lines_range_end[w])
    /\ at' = [at EXCEPT ![w] = "returned"]
    /\ pc' = Joined(w)
    /\ UNCHANGED <<prog, tracer_vars, function_vars, matrix_args, matrix, stray, row, written, loaded>>

fill_matrix_3d ==
    \/ \E w \in Calls : Row3D(w)
    \/ \E w \in Calls : Unknown3D(w)
    \/ \E w \in Calls : Return3D(w)

(***************************************************************************)
(* Plane intersection (traceon-backend.c, 1135-1179).  The caller of the   *)
(* model calls the routine on a trajectory and, when it returns true, once *)
(* more on a trajectory made of the returned point and the two states it   *)
(* lies between.                                                           *)
(***************************************************************************)
\* largest N_p of the model
MaxStates == 4

\* double positions[N_p][4] or [N_p][6]
Width == IF prog = "xy_plane_intersection_2d" THEN 4 ELSE 6

\* lines 1142-1143, 1164-1165: the component that is z
ZIndex == IF prog = "xy_plane_intersection_2d" THEN 1 ELSE 2

\* state n of a trajectory: z as given, the other components all different
StateAt(n, zval) ==
    [c \in 0..(Width - 1) |-> IF c = ZIndex THEN zval ELSE Rat(n * n + 2 * c, 1)]

fmax(a, b) == CHOOSE r \in {IF p[1] = NaN THEN p[2]
                             ELSE IF p[2] = NaN THEN p[1]
                             ELSE IF Leq(p[1], p[2]) THEN p[2] ELSE p[1]
                             : p \in {<<a, b>>}} : TRUE

\* a <= b in doubles: false when either is NaN
LeqD(a, b) == a # NaN /\ b # NaN /\ Leq(a, b)

\* a < b in doubles: false when either is NaN
LtD(a, b) == a # NaN /\ b # NaN /\ Lt(a, b)

\* lines 1145, 1167, with the two ends of the interval left out
Straddles_open(z1, z2, z_) == LtD(fmin(z1, z2), z_) /\ LtD(z_, fmax(z1, z2))

\* lines 1145, 1167: fmin(z1, z2) <= z && z <= fmax(z1, z2)
Straddles(z1, z2, z_) == LeqD(fmin(z1, z2), z_) /\ LeqD(z_, fmax(z1, z2))

\* lines 1146, 1168: fabs((z-z1)/(z1-z2)); 0/0 where z1 = z2 (then z = z1)
Ratio(z1, z2, z_) ==
    IF z1 = NaN \/ z2 = NaN \/ z1 = z2 THEN NaN
    ELSE fabs(Div(Sub(z_, z1), Sub(z1, z2)))

\* lines 1148-1149, 1170-1171: positions[i-1][k] + ratio*(positions[i][k] -
\* positions[i-1][k]) for every k
Interpolated(a, b, ratio) ==
    [c \in DOMAIN a |-> IF ratio = NaN \/ a[c] = NaN \/ b[c] = NaN THEN NaN
                        ELSE Add(a[c], Mul(ratio, Sub(b[c], a[c])))]

\* lines 1140, 1162: int i = N_p-1, the size_t N_p-1 converted to int: -1
\* for N_p = 0
LastPair(n) == n - 1

\* the calls the model explores: trajectories of up to MaxStates states with
\* their z-coordinates among five values, and two planes
PlaneInit ==
    \E n \in 0..MaxStates :
    \E zs \in [1..n -> { Zero, Rat(1, 2), One, Rat(3, 2), Rat(5, 2) }] :
    \E z_ \in { One, Rat(2, 1) } :
        /\ positions_p = [m \in 1..n |-> StateAt(m, zs[m])]
        /\ N_p = n
        /\ plane_z = z_
        /\ result = [c \in 0..(Width - 1) |-> Garbage]
        /\ hit = FALSE
        /\ scan = LastPair(n)
        /\ pass = "first"
        /\ first_point = <<>>

\* the plane variables while another routine runs
PlaneIdle ==
    /\ positions_p = <<>>
    /\ N_p = 0
    /\ plane_z = Zero
    /\ result = <<>>
    /\ hit = FALSE
    /\ scan = 0
    /\ pass = "none"
    /\ first_point = <<>>

PlaneRunning ==
    /\ prog \in {"xy_plane_intersection_2d", "xy_plane_intersection_3d"}
    /\ pc = "scan"

\* positions[i-1] and positions[i] of the loop; the model's sequences start
\* at 1
Earlier == positions_p[scan]
Later == positions_p[scan + 1]

\* lines 1140-1145, 1154: the pair does not straddle the plane: i--
PlaneNext ==
    /\ PlaneRunning /\ scan > 0
    /\ ~Straddles(Earlier[ZIndex], Later[ZIndex], plane_z)
    /\ scan' = scan - 1
    /\ UNCHANGED <<prog, pc, tracer_vars, matrix_vars, eval_vars, ellip_vars, kernel_vars, positions_p, N_p, plane_z,
                   result, hit, pass, first_point>>

\* lines 1145-1152: the pair straddles the plane: result is set, return true
PlaneFound ==
    /\ PlaneRunning /\ scan > 0
    /\ Straddles(Earlier[ZIndex], Later[ZIndex], plane_z)
    /\ result' = Interpolated(Earlier, Later,
                              Ratio(Earlier[ZIndex], Later[ZIndex], plane_z))
    /\ hit' = TRUE
    /\ pc' = "returned"
    /\ UNCHANGED <<prog, tracer_vars, matrix_vars, eval_vars, ellip_vars, kernel_vars, positions_p, N_p, plane_z,
                   scan, pass, first_point>>

\* lines 1140, 1155: the loop is over: return false
PlaneNotFound ==
    /\ PlaneRunning /\ ~(scan > 0)
    /\ hit' = FALSE
    /\ pc' = "returned"
    /\ UNCHANGED <<prog, tracer_vars, matrix_vars, eval_vars, ellip_vars, kernel_vars, positions_p, N_p, plane_z,
                   result, scan, pass, first_point>>

\* the trajectories the caller makes of the point p and the two states
\* t[n], t[n+1] it was interpolated from
Reapplied(t, n, p) ==
    [inserted |-> SubSeq(t, 1, n) \o <<p>> \o SubSeq(t, n + 1, Len(t)),
     earlier |-> <<t[n], p>>,
     later |-> <<p, t[n + 1]>>]

\* the caller calls again, at the same z
PlaneAgain ==
    /\ prog \in {"xy_plane_intersection_2d", "xy_plane_intersection_3d"}
    /\ pc = "returned" /\ pass = "first" /\ hit
    /\ \E which \in {"inserted", "earlier", "later"} :
          /\ positions_p' = Reapplied(positions_p, scan, result)[which]
          /\ N_p' = Len(positions_p')
          /\ scan' = LastPair(N_p')
          /\ pass' = which
    /\ first_point' = result
    /\ result' = [c \in 0..(Width - 1) |-> Garbage]
    /\ hit' = FALSE
    /\ pc' = "scan"
    /\ UNCHANGED <<prog, tracer_vars, matrix_vars, eval_vars, ellip_vars, kernel_vars, plane_z>>

(***************************************************************************)
(* The expansion evaluators (traceon-backend.c, 482-507, 577-605, 717-750, *)
(* 805-861): one call of one of them.  The points of the model have        *)
(* y = 0 and x >= 0, so that phi = atan2(y, x) = 0, cos(m*phi) = 1 and      *)
(* sin(m*phi) = 0.                                                         *)
(***************************************************************************)
DERIV_2D_MAX == 9
NU_MAX == 4
M_MAX == 8

\* largest N_z of the model
MaxGrid == 3

\* bits of the significand to which the evaluators round z - z0, the
\* quotient by dz and z - z_inter[index]; binary64 has 53
MantissaBits == 4

\* the double nearest to x, a tie to the one with the even significand:
\* |x| = p[1]/p[2] * 2^e with 2^(MantissaBits-1) <= p[1]/p[2] < 2^MantissaBits
RoundD(x_) ==
    CHOOSE rounded \in UNION {
        IF x[1] = 0 THEN {x}
        ELSE UNION {
            { LET m0 == p[1] \div p[2]
                  rem2 == 2 * (p[1] - m0 * p[2])
                  m == IF rem2 > p[2] \/ (rem2 = p[2] /\ m0 % 2 = 1) THEN m0 + 1 ELSE m0
                  sign == IF x[1] < 0 THEN -1 ELSE 1
              IN  IF e < 0 THEN Rat(sign * m, 2^(-e)) ELSE Rat(sign * m * 2^e, 1)
              : p \in {<<IF e < 0 THEN Abs(x[1]) * 2^(-e) ELSE Abs(x[1]),
                         IF e < 0 THEN x[2] ELSE x[2] * 2^e>>} }
            : e \in {CHOOSE ex \in (-16)..8 :
                         LET nk == IF ex < 0 THEN Abs(x[1]) * 2^(-ex) ELSE Abs(x[1])
                             dk == IF ex < 0 THEN x[2] ELSE x[2] * 2^ex
                         IN  2^(MantissaBits - 1) * dk <= nk /\ nk < 2^MantissaBits * dk} }
        : x \in {x_} } : TRUE

\* coeff[index][i][c] of table t: small numbers, all rows different
Coeff2D(t, n, i_, c) == Rat(((t + 2 * n + 3 * i_ + 5 * c) % 7) - 3, 1)

\* coeffs[index][a][nu][m][c] of table t
Coeff3D(t, n, a, nu, m, c) == Rat(((t + 2 * n + 3 * a + nu + 4 * m + 5 * c) % 7) - 3, 1)

pow(x, n) == Pow5(x, n)

\* lines 490, 586, 725, 814 with the lower end of the grid let in
InsideGrid_from(zs, n, z_) == Leq(zs[0], z_) /\ Lt(z_, zs[n - 1])

\* lines 490, 586, 725, 814: z0 < z && z < zlast
InsideGrid(zs, n, z_) == Lt(zs[0], z_) /\ Lt(z_, zs[n - 1])

\* lines 502-504, 598-600: derivs[i] of row n of the table at diffz
Derivs(t, n, diffz) ==
    [i_ \in 0..(DERIV_2D_MAX - 1) |->
        SumTo([c \in 0..5 |-> Mul(Coeff2D(t, n, i_, c), pow(diffz, 5 - c))], 6)]

\* line 506
PotentialRadial(r, d) ==
    Add(Sub(Add(Sub(d[0], Mul(pow(r, 2), d[2])),
                Mul(Div(pow(r, 4), Rat(64, 1)), d[4])),
            Mul(Div(pow(r, 6), Rat(2304, 1)), d[6])),
        Mul(Div(pow(r, 8), Rat(147456, 1)), d[8]))

\* line 603 with derivs[2] in the place of derivs[1]
FieldRadialZ_second(r, d) ==
    Add(Sub(Add(Neg(d[2]), Mul(Div(pow(r, 2), Rat(4, 1)), d[3])),
            Mul(Div(pow(r, 4), Rat(64, 1)), d[5])),
        Mul(Div(pow(r, 6), Rat(2304, 1)), d[7]))

\* line 603: field[1]
FieldRadialZ(r, d) ==
    Add(Sub(Add(Neg(d[1]), Mul(Div(pow(r, 2), Rat(4, 1)), d[3])),
            Mul(Div(pow(r, 4), Rat(64, 1)), d[5])),
        Mul(Div(pow(r, 6), Rat(2304, 1)), d[7]))

\* line 602: field[0]
FieldRadialR(r, d) ==
    Mul(Div(r, Rat(2, 1)),
        Sub(Add(Sub(d[2], Mul(Div(pow(r, 2), Rat(8, 1)), d[4])),
                Mul(Div(pow(r, 4), Rat(192, 1)), d[6])),
            Mul(Div(pow(r, 6), Rat(9216, 1)), d[8])))

\* lines 736-737, 830-831: A[nu][m] (a = 0) and B[nu][m] (a = 1) at z_
Cubic(t, n, a, nu, m, z_) ==
    SumTo([c \in 0..3 |-> Mul(Coeff3D(t, n, a, nu, m, c), pow(z_, 3 - c))], 4)

\* lines 833-834: Adiff[nu][m] and Bdiff[nu][m]
CubicDiff(t, n, a, nu, m, z_) ==
    Add(Add(Mul(Mul(Rat(3, 1), pow(z_, 2)), Coeff3D(t, n, a, nu, m, 0)),
            Mul(Mul(Rat(2, 1), z_), Coeff3D(t, n, a, nu, m, 1))),
        Coeff3D(t, n, a, nu, m, 2))

\* the sum of term[nu][m] over the loops of nu and m
SumNuM(term) ==
    SumTo([nu \in 0..(NU_MAX - 1) |-> SumTo(term[nu], M_MAX)], NU_MAX)

\* lines 745-747 at phi = 0
Potential3D(t, n, r, z_) ==
    SumNuM([nu \in 0..(NU_MAX - 1) |-> [m \in 0..(M_MAX - 1) |->
        Mul(Cubic(t, n, 0, nu, m, z_), pow(r, m + 2 * nu))]])

\* lines 842-846 with the sine and the cosine coefficients exchanged
Field3DOnAxis_exchanged(t, n, z_) ==
    <<Neg(Cubic(t, n, 1, 0, 1, z_)), Neg(Cubic(t, n, 0, 0, 1, z_)),
      Neg(CubicDiff(t, n, 0, 0, 0, z_))>>

\* lines 842-846: r < MIN_DISTANCE_AXIS
Field3DOnAxis(t, n, z_) ==
    <<Neg(Cubic(t, n, 0, 0, 1, z_)), Neg(Cubic(t, n, 1, 0, 1, z_)),
      Neg(CubicDiff(t, n, 0, 0, 0, z_))>>

\* lines 849-860 at phi = 0, xp = r, yp = 0; exp*pow(r, exp-1) is 0 at exp = 0
Field3DOffAxis(t, n, r, z_) ==
    <<Neg(SumNuM([nu \in 0..(NU_MAX - 1) |-> [m \in 0..(M_MAX - 1) |->
          IF 2 * nu + m = 0 THEN Zero
          ELSE Mul(Cubic(t, n, 0, nu, m, z_),
                   Mul(Rat(2 * nu + m, 1), pow(r, 2 * nu + m - 1)))]])),
      Neg(SumNuM([nu \in 0..(NU_MAX - 1) |-> [m \in 0..(M_MAX - 1) |->
          Div(Mul(Mul(Rat(m, 1), Cubic(t, n, 1, nu, m, z_)), pow(r, 2 * nu + m)), r)]])),
      Neg(SumNuM([nu \in 0..(NU_MAX - 1) |-> [m \in 0..(M_MAX - 1) |->
          Mul(CubicDiff(t, n, 0, nu, m, z_), pow(r, 2 * nu + m))]]))>>

Evaluators ==
    {"potential_radial_derivs", "field_radial_derivs",
     "potential_3d_derivs", "field_3d_derivs"}

\* the calls the model explores: a uniform grid of n points from z0 in
\* steps of dz, one of two tables, the point (r, z) or (x, y, z) = (r, 0, z),
\* z a half of an integer or, on the axis, the largest double below 1, 2,
\* 3 or 4
EvalInit ==
    \E n \in 1..MaxGrid :
    \E z0 \in {Rat(-1, 1), Zero}, dz \in {One, Rat(2, 1)} :
    \E r \in {Zero, One, Rat(2, 1)} :
    \E z_ \in {Rat(q, 2) : q \in (-3)..6}
              \cup (IF r = Zero
                    THEN {Rat(2^MantissaBits - 1, 2^MantissaBits),
                          Rat(2^MantissaBits - 1, 2^(MantissaBits - 1)),
                          Rat(3 * 2^(MantissaBits - 2) - 1, 2^(MantissaBits - 2)),
                          Rat(2^MantissaBits - 1, 2^(MantissaBits - 2))}
                    ELSE {}) :
    \E t \in {1, 2} :
        /\ point = [r |-> r, z |-> z_]
        /\ z_inter = [g \in 0..(n - 1) |-> Add(z0, Mul(Rat(g, 1), dz))]
        /\ N_z = n
        /\ table = t
        /\ value = Garbage
        /\ field_out = <<Garbage, Garbage, Garbage>>
        /\ rows_read = {}

\* the evaluator variables while another routine runs
EvalIdle ==
    /\ point = [r |-> Zero, z |-> Zero]
    /\ z_inter = <<>>
    /\ N_z = 0
    /\ table = 0
    /\ value = Garbage
    /\ field_out = <<>>
    /\ rows_read = {}

\* lines 494-495, 590-591, 727-728, 816-817: the row of the table the call
\* reads, (int) ((z-z0)/dz), the difference and the quotient each rounded to
\* a double, the quotient not negative
RowRead ==
    CHOOSE n \in {q[1] \div q[2] :
                     q \in {RoundD(Div(RoundD(Sub(point.z, z_inter[0])),
                                       RoundD(Sub(z_inter[1], z_inter[0]))))}} : TRUE

\* lines 496, 592, 729, 819: z - z_inter[index]
DiffZ == RoundD(Sub(point.z, z_inter[RowRead]))

\* lines 490-492, 586-589, 725, 812-814: z is not inside the grid
EvalOutside ==
    /\ prog \in Evaluators /\ pc = "call"
    /\ ~InsideGrid(z_inter, N_z, point.z)
    /\ IF prog \in {"field_radial_derivs", "field_3d_derivs"}
       THEN field_out' = <<Zero, Zero, Zero>> /\ UNCHANGED value
       ELSE value' = Zero /\ UNCHANGED field_out
    /\ pc' = "returned"
    /\ UNCHANGED <<prog, tracer_vars, matrix_vars, plane_vars, ellip_vars, kernel_vars, point, z_inter,
                   N_z, table, rows_read>>

\* the table has a row for each interval of the grid
TableRows == 0..(N_z - 2)

\* lines 496-498, 592-594, 729-731, 819-821: index is no row of the table;
\* the call reads what lies behind the table, which is undefined
EvalBeyondTable ==
    /\ prog \in Evaluators /\ pc = "call"
    /\ InsideGrid(z_inter, N_z, point.z)
    /\ RowRead \notin TableRows
    /\ rows_read' = {RowRead}
    /\ pc' = "undefined"
    /\ UNCHANGED <<prog, tracer_vars, matrix_vars, plane_vars, ellip_vars, kernel_vars, point, z_inter,
                   N_z, table, value, field_out>>

\* lines 494-506
potential_radial_derivs ==
    /\ prog = "potential_radial_derivs" /\ pc = "call"
    /\ InsideGrid(z_inter, N_z, point.z)
    /\ RowRead \in TableRows
    /\ \E p \in {<<RowRead, DiffZ>>} :
          value' = PotentialRadial(point.r, Derivs(table, p[1], p[2]))
    /\ rows_read' = {RowRead}
    /\ pc' = "returned"
    /\ UNCHANGED <<prog, tracer_vars, matrix_vars, plane_vars, ellip_vars, kernel_vars, point, z_inter,
                   N_z, table, field_out>>

\* lines 590-604
field_radial_derivs ==
    /\ prog = "field_radial_derivs" /\ pc = "call"
    /\ InsideGrid(z_inter, N_z, point.z)
    /\ RowRead \in TableRows
    /\ \E p \in {<<RowRead, DiffZ>>} : \E d \in {Derivs(table, p[1], p[2])} :
          field_out' = <<FieldRadialR(point.r, d), FieldRadialZ(point.r, d), Zero>>
    /\ rows_read' = {RowRead}
    /\ pc' = "returned"
    /\ UNCHANGED <<prog, tracer_vars, matrix_vars, plane_vars, ellip_vars, kernel_vars, point, z_inter,
                   N_z, table, value>>

\* lines 727-749
potential_3d_derivs ==
    /\ prog = "potential_3d_derivs" /\ pc = "call"
    /\ InsideGrid(z_inter, N_z, point.z)
    /\ RowRead \in TableRows
    /\ \E p \in {<<RowRead, DiffZ>>} :
          value' = Potential3D(table, p[1], point.r, p[2])
    /\ rows_read' = {RowRead}
    /\ pc' = "returned"
    /\ UNCHANGED <<prog, tracer_vars, matrix_vars, plane_vars, ellip_vars, kernel_vars, point, z_inter,
                   N_z, table, field_out>>

\* lines 816-861.  MIN_DISTANCE_AXIS is 1e-10 and the smallest number above 0
\* the model can hold is above 4e-10, so r < MIN_DISTANCE_AXIS is r = 0
field_3d_derivs ==
    /\ prog = "field_3d_derivs" /\ pc = "call"
    /\ InsideGrid(z_inter, N_z, point.z)
    /\ RowRead \in TableRows
    /\ \E p \in {<<RowRead, DiffZ>>} :
          field_out' = IF point.r = Zero
                       THEN Field3DOnAxis(table, p[1], p[2])
                       ELSE Field3DOffAxis(table, p[1], point.r, p[2])
    /\ rows_read' = {RowRead}
    /\ pc' = "returned"
    /\ UNCHANGED <<prog, tracer_vars, matrix_vars, plane_vars, ellip_vars, kernel_vars, point, z_inter,
                   N_z, table, value>>

(***************************************************************************)
(* The elliptic integrals E and K (traceon-backend.c, 62-132): one call of *)
(* ellipe or ellipk.  Its doubles are numbers, the two infinities and NaN, with the  *)
(* arithmetic of IEEE 754 on them.  The arguments of the model are those   *)
(* for which log has an exact value: 0, 1 and numbers above 1.             *)
(***************************************************************************)
PosInf == <<1, 0, "inf">>
NegInf == <<-1, 0, "inf">>

IsInf(a) == a = PosInf \/ a = NegInf

\* -1, 0 or 1
Sign(a) ==
    IF a = PosInf THEN 1 ELSE IF a = NegInf THEN -1
    ELSE IF a[1] > 0 THEN 1 ELSE IF a[1] < 0 THEN -1 ELSE 0

\* a * b: inf * 0 is NaN
MulD(a, b) ==
    CHOOSE r \in
        { IF p[1] = NaN \/ p[2] = NaN THEN NaN
          ELSE IF IsInf(p[1]) \/ IsInf(p[2])
               THEN IF Sign(p[1]) * Sign(p[2]) = 0 THEN NaN
                    ELSE IF Sign(p[1]) * Sign(p[2]) > 0 THEN PosInf ELSE NegInf
          ELSE Mul(p[1], p[2]) : p \in {<<a, b>>} } : TRUE

\* a + b: inf + -inf is NaN
AddD(a, b) ==
    CHOOSE r \in
        { IF p[1] = NaN \/ p[2] = NaN THEN NaN
          ELSE IF IsInf(p[1]) /\ IsInf(p[2]) THEN (IF p[1] = p[2] THEN p[1] ELSE NaN)
          ELSE IF IsInf(p[1]) THEN p[1]
          ELSE IF IsInf(p[2]) THEN p[2]
          ELSE Add(p[1], p[2]) : p \in {<<a, b>>} } : TRUE

\* log(x) where it has an exact value: log(1) = 0, log(inf) = inf,
\* log(0) = -inf, log of a negative number is NaN
log(x) ==
    IF x = NaN THEN NaN
    ELSE IF x = PosInf THEN PosInf
    ELSE IF Sign(x) < 0 THEN NaN
    ELSE IF x = Zero THEN NegInf
    ELSE CHOOSE r \in {Zero} : x = One

\* sqrt(x): NaN for a negative number
sqrtD(x) ==
    IF x = NaN \/ Sign(x) < 0 THEN NaN ELSE IF x = PosInf THEN PosInf ELSE sqrt(x)

\* lines 86-87, 122-123: sum_ after the passes i = 0 .. n-1 of the loop over
\* the tables A_ and B_
RECURSIVE EllipeSum(_, _, _, _, _)
EllipeSum(A_, B_, eta, L, n) ==
    IF n = 0 THEN Zero
    ELSE AddD(EllipeSum(A_, B_, eta, L, n - 1),
              MulD(AddD(A_[n - 1], MulD(L, B_[n - 1])), pow(eta, n - 1)))

\* lines 98-126: ellipe_01(k); 1./eta is +inf at eta = 0.  A[] and B[] of
\* lines 100-117 are taken to four decimals
ellipe_01(x) ==
    CHOOSE r \in
        { EllipeSum(Arr(<<One, Rat(4431, 10000), Rat(568, 10000), Rat(222, 10000),
                          Rat(157, 10000), Rat(192, 10000), Rat(122, 10000),
                          Rat(16, 10000)>>),
                    Arr(<<Zero, Rat(2500, 10000), Rat(937, 10000), Rat(585, 10000),
                          Rat(409, 10000), Rat(235, 10000), Rat(65, 10000),
                          Rat(4, 10000)>>),
                    p[1], p[2], 8) :
          p \in {<<eta, log(IF eta = Zero THEN PosInf ELSE Div(One, eta))>> :
                    eta \in {Sub(One, x)}} } : TRUE

\* the variables of ellipe while another routine runs
EllipIdle == modulus = Zero /\ elliptic = Garbage

\* lines 128-132: ellipe(k)
ellipe ==
    \* line 129: 0 <= k && k <= 1
    \/ /\ prog = "ellipe" /\ pc = "call"
       /\ Leq(Zero, modulus) /\ Leq(modulus, One)
       /\ elliptic' = ellipe_01(modulus)
       /\ pc' = "returned"
       /\ UNCHANGED <<prog, tracer_vars, matrix_vars, plane_vars, eval_vars, kernel_vars, modulus>>
    \* line 131: ellipe_01(k/(k-1.))*sqrt(1-k)
    \/ /\ prog = "ellipe" /\ pc = "call"
       /\ ~(Leq(Zero, modulus) /\ Leq(modulus, One))
       /\ elliptic' = MulD(ellipe_01(Div(modulus, Sub(modulus, One))),
                           sqrtD(Sub(One, modulus)))
       /\ pc' = "returned"
       /\ UNCHANGED <<prog, tracer_vars, matrix_vars, plane_vars, eval_vars, kernel_vars, modulus>>

\* lines 62-90: ellipk_singularity(k).  A[] and B[] of lines 65-81 are taken
\* to four decimals; A[0] is log(4.0)
ellipk_singularity(x) ==
    CHOOSE r \in
        { EllipeSum(Arr(<<Rat(13863, 10000), Rat(966, 10000), Rat(309, 10000),
                          Rat(153, 10000), Rat(126, 10000), Rat(169, 10000),
                          Rat(109, 10000), Rat(14, 10000)>>),
                    Arr(<<Rat(1, 2), Rat(1250, 10000), Rat(703, 10000), Rat(487, 10000),
                          Rat(357, 10000), Rat(210, 10000), Rat(58, 10000),
                          Rat(3, 10000)>>),
                    p[1], p[2], 8) :
          p \in {<<eta, log(IF eta = Zero THEN PosInf ELSE Div(One, eta))>> :
                    eta \in {Sub(One, x)}} } : TRUE

\* lines 92-93: ellipk(k) for k > -1, as every argument of the model is; the
\* branch of line 95 takes the log of a number with no exact value
ellipk ==
    /\ prog = "ellipk" /\ pc = "call"
    /\ Lt(Rat(-1, 1), modulus)
    /\ elliptic' = ellipk_singularity(modulus)
    /\ pc' = "returned"
    /\ UNCHANGED <<prog, tracer_vars, matrix_vars, plane_vars, eval_vars, kernel_vars, modulus>>

(***************************************************************************)
(* normal_2d and normal_3d (traceon-backend.c, 150-187): one call.  The    *)
(* points of the model make every length a whole number.                   *)
(***************************************************************************)
\* a / b: 0/0 is NaN, a/0 an infinity
DivD(a, b) ==
    CHOOSE r \in
        { IF p[1] = NaN \/ p[2] = NaN THEN NaN
          ELSE IF p[2] = Zero
               THEN IF Sign(p[1]) = 0 THEN NaN
                    ELSE IF Sign(p[1]) > 0 THEN PosInf ELSE NegInf
          ELSE Div(p[1], p[2]) : p \in {<<a, b>>} } : TRUE

\* lines 140-143
norm_2d(x, y_) == sqrt(Add(Mul(x, x), Mul(y_, y_)))

\* the variables of normal_2d and normal_3d while another routine runs
NormalIdle == vertices = <<>> /\ normal_out = <<>>

\* the variables of legendre and log_integral while another routine runs
LegendreIdle ==
    /\ order = 0 /\ abscissa = Zero /\ legendre_value = Garbage
    /\ quad = <<>> /\ requested = {}

\* the variables of the ring kernel while another routine runs
RingIdle ==
    /\ target = <<>> /\ source = <<>> /\ charges = <<>>
    /\ ring_value = Garbage /\ ring_at = <<>> /\ elliptic_calls = 0

KernelIdle == NormalIdle /\ LegendreIdle /\ RingIdle

\* lines 150-161
normal_2d ==
    /\ prog = "normal_2d" /\ pc = "call"
    /\ \E t \in {<<Sub(vertices[2][0], vertices[1][0]),
                   Sub(vertices[2][1], vertices[1][1])>>} :
       \E length \in {norm_2d(t[2], Neg(t[1]))} :
           normal_out' = <<DivD(t[2], length), DivD(Neg(t[1]), length)>>
    /\ pc' = "returned"
    /\ UNCHANGED <<prog, tracer_vars, matrix_vars, plane_vars, eval_vars, ellip_vars, vertices,
                   order, abscissa, legendre_value, quad, requested, ring_vars>>

\* lines 173-187
normal_3d ==
    /\ prog = "normal_3d" /\ pc = "call"
    /\ \E a \in {[c \in 0..2 |-> Sub(vertices[2][c], vertices[1][c])]} :
       \E b \in {[c \in 0..2 |-> Sub(vertices[3][c], vertices[1][c])]} :
       \E n \in {<<Sub(Mul(a[1], b[2]), Mul(b[1], a[2])),
                   Sub(Mul(b[0], a[2]), Mul(a[0], b[2])),
                   Sub(Mul(a[0], b[1]), Mul(b[0], a[1]))>>} :
       \E length \in {norm_3d(n[1], n[2], n[3])} :
           normal_out' = <<DivD(n[1], length), DivD(n[2], length), DivD(n[3], length)>>
    /\ pc' = "returned"
    /\ UNCHANGED <<prog, tracer_vars, matrix_vars, plane_vars, eval_vars, ellip_vars, vertices,
                   order, abscissa, legendre_value, quad, requested, ring_vars>>

(***************************************************************************)
(* legendre and log_integral (traceon-backend.c, 888-982).  Of             *)
(* log_integral the model keeps the loops and the orders they pass to      *)
(* legendre, by itself and through legendre_coefficient; the sum is left   *)
(* out.                                                                    *)
(***************************************************************************)
\* largest order the model calls legendre with
MaxOrder == 10

N_LOG_QUAD_2D == 7

\* lines 889-907: the cases of the switch
LegendreCases_seven == 0..6
LegendreCases == 0..8

\* lines 890-907: what case n returns
legendre(n, x) ==
    CASE n = 0 -> One
      [] n = 1 -> x
      [] n = 2 -> Div(Sub(Mul(Rat(3, 1), pow(x, 2)), One), Rat(2, 1))
      [] n = 3 -> Div(Sub(Mul(Rat(5, 1), pow(x, 3)), Mul(Rat(3, 1), x)), Rat(2, 1))
      [] n = 4 -> Div(Add(Sub(Mul(Rat(35, 1), pow(x, 4)), Mul(Rat(30, 1), pow(x, 2))),
                          Rat(3, 1)), Rat(8, 1))
      [] n = 5 -> Div(Add(Sub(Mul(Rat(63, 1), pow(x, 5)), Mul(Rat(70, 1), pow(x, 3))),
                          Mul(Rat(15, 1), x)), Rat(8, 1))
      [] n = 6 -> Div(Sub(Add(Sub(Mul(Rat(231, 1), pow(x, 6)), Mul(Rat(315, 1), pow(x, 4))),
                              Mul(Rat(105, 1), pow(x, 2))), Rat(5, 1)), Rat(16, 1))
      [] n = 7 -> Div(Sub(Add(Sub(Mul(Rat(429, 1), pow(x, 7)), Mul(Rat(693, 1), pow(x, 5))),
                              Mul(Rat(315, 1), pow(x, 3))), Mul(Rat(35, 1), x)), Rat(16, 1))
      [] n = 8 -> Div(Add(Sub(Add(Sub(Mul(Rat(6435, 1), pow(x, 8)),
                                      Mul(Rat(12012, 1), pow(x, 6))),
                                  Mul(Rat(6930, 1), pow(x, 4))),
                              Mul(Rat(1260, 1), pow(x, 2))), Rat(35, 1)), Rat(128, 1))

\* lines 888-926: one call of legendre; line 925 is exit(1)
legendre_call ==
    /\ prog = "legendre" /\ pc = "call"
    /\ IF order \in LegendreCases
       THEN legendre_value' = legendre(order, abscissa) /\ pc' = "returned"
       ELSE UNCHANGED legendre_value /\ pc' = "exit"
    /\ UNCHANGED <<prog, tracer_vars, matrix_vars, plane_vars, eval_vars, ellip_vars,
                   vertices, normal_out, order, abscissa, quad, requested, ring_vars>>

\* lines 933-982: log_integral, the orders it requests of legendre
log_integral ==
    \* lines 949-979: one pass of a loop over m (the first loop: lines 962-965,
    \* the second: lines 975-978): legendre_coefficient(m, k) calls
    \* legendre(m, GAUSS_QUAD_POINTS[k]) (line 930) and the pass calls
    \* legendre(m, legendre_arg)
    \/ /\ prog = "log_integral" /\ pc = "loop"
       /\ quad.o < N_LOG_QUAD_2D
       /\ requested' = requested \cup {quad.m}
       /\ IF quad.m \notin LegendreCases
          THEN pc' = "exit" /\ UNCHANGED quad
          ELSE /\ pc' = pc
               /\ quad' = IF quad.m + 1 < N_QUAD_2D
                          THEN [quad EXCEPT !.m = quad.m + 1]
                          ELSE IF quad.loop = 1
                               THEN [quad EXCEPT !.m = 0, !.loop = 2]
                               ELSE [quad EXCEPT !.m = 0, !.loop = 1, !.o = quad.o + 1]
       /\ UNCHANGED <<prog, tracer_vars, matrix_vars, plane_vars, eval_vars, ellip_vars,
                      vertices, normal_out, order, abscissa, legendre_value, ring_vars>>
    \* lines 949, 981
    \/ /\ prog = "log_integral" /\ pc = "loop"
       /\ quad.o >= N_LOG_QUAD_2D
       /\ pc' = "returned"
       /\ UNCHANGED <<prog, tracer_vars, matrix_vars, plane_vars, eval_vars, ellip_vars,
                      kernel_vars>>

(***************************************************************************)
(* dr1_potential_radial_ring and field_radial (traceon-backend.c, 363-375, *)
(* 525-553).  Of field_radial the model keeps Ex; Ey, the sum of           *)
(* dz1_potential_radial_ring, is left out.                                 *)
(***************************************************************************)
\* largest N_vertices of the model
MaxVertices == 2

\* lines 367-374: the kernel past the test of line 365, as <<value, calls of
\* ellipe and ellipk>>
RingDerivative(r_0, z_0, r, z) ==
    CHOOSE v \in
        { <<AddD(MulD(IF q.t = NaN THEN NaN ELSE ellipe_01(q.t),
                      DivD(Neg(Sub(Mul(Mul(Mul(Rat(2, 1), r), r_0), q.s1), Mul(r, q.s))),
                           Sub(Mul(Mul(Rat(2, 1), r_0), pow(q.s, 2)),
                               Mul(Mul(Rat(8, 1), pow(r_0, 2)), r)))),
                 MulD(IF q.t = NaN THEN NaN ELSE ellipk_singularity(q.t),
                      DivD(Neg(r), Mul(Mul(Rat(2, 1), r_0), q.s)))), 2>> :
          q \in { [s |-> s, s1 |-> DivD(Add(r_0, r), s),
                   t |-> DivD(Mul(Mul(Rat(4, 1), r), r_0), pow(s, 2))] :
                  s \in {norm_2d(Sub(z, z_0), Add(r, r_0))} } } : TRUE

\* lines 363-375 without the test of line 365
dr1_potential_radial_ring_unguarded(r_0, z_0, r, z) == RingDerivative(r_0, z_0, r, z)

\* lines 363-375.  MIN_DISTANCE_AXIS is 1e-10 and the smallest number above 0
\* the model can hold is above 4e-10, so fabs(r_0) < MIN_DISTANCE_AXIS is
\* r_0 = 0
dr1_potential_radial_ring(r_0, z_0, r, z) ==
    IF fabs(r_0) = Zero THEN <<Zero, 0>> ELSE RingDerivative(r_0, z_0, r, z)

\* one call of dr1_potential_radial_ring
dr1_call ==
    /\ prog = "dr1_potential_radial_ring" /\ pc = "call"
    /\ \E v \in {dr1_potential_radial_ring(target[1], target[2], source[1], source[2])} :
          ring_value' = v[1] /\ elliptic_calls' = v[2]
    /\ pc' = "returned"
    /\ UNCHANGED <<prog, tracer_vars, matrix_vars, plane_vars, eval_vars, ellip_vars,
                   vertices, normal_out, order, abscissa, legendre_value, quad, requested,
                   target, source, charges, ring_at>>

\* GAUSS_QUAD_POINTS and GAUSS_QUAD_WEIGHTS of lines 394-395 are taken to two
\* decimals
field_radial ==
    \* lines 534-548: one pass of the loops over i and k
    \/ /\ prog = "field_radial" /\ pc = "loop"
       /\ ring_at[1] < Len(source)
       /\ \E v1 \in {source[ring_at[1] + 1][1]}, v2 \in {source[ring_at[1] + 1][2]} :
          \E point_ \in {Arr(<<Rat(-18, 100), Rat(18, 100), Rat(-53, 100), Rat(53, 100),
                                Rat(-80, 100), Rat(80, 100), Rat(-96, 100),
                                Rat(96, 100)>>)[ring_at[2]]} :
          \E weight_ \in {Arr(<<Rat(36, 100), Rat(36, 100), Rat(31, 100), Rat(31, 100),
                                 Rat(22, 100), Rat(22, 100), Rat(10, 100),
                                 Rat(10, 100)>>)[ring_at[2]]} :
          \E length_factor \in {Add(Div(point_, Rat(2, 1)), Rat(1, 2))} :
          \E r \in {Add(v1[1], Mul(length_factor, Sub(v2[1], v1[1])))} :
          \E z \in {Add(v1[2], Mul(length_factor, Sub(v2[2], v1[2])))} :
          \E length \in {norm_2d(Sub(v2[1], v1[1]), Sub(v2[2], v1[2]))} :
          \E weight \in {Div(Mul(weight_, length), Rat(2, 1))} :
          \E v \in {dr1_potential_radial_ring(target[1], target[2], r, z)} :
             /\ ring_value' =
                   AddD(ring_value,
                        MulD(Rat(-1, 1),
                             MulD(Mul(weight, charges[ring_at[1] + 1][ring_at[2]]), v[1])))
             /\ elliptic_calls' = elliptic_calls + v[2]
       /\ ring_at' = IF ring_at[2] + 1 < N_QUAD_2D
                     THEN <<ring_at[1], ring_at[2] + 1>>
                     ELSE <<ring_at[1] + 1, 0>>
       /\ UNCHANGED <<prog, pc, tracer_vars, matrix_vars, plane_vars, eval_vars, ellip_vars,
                      vertices, normal_out, order, abscissa, legendre_value, quad, requested,
                      target, source, charges>>
    \* lines 534, 550-552: result[0] = Ex
    \/ /\ prog = "field_radial" /\ pc = "loop"
       /\ ring_at[1] >= Len(source)
       /\ pc' = "returned"
       /\ UNCHANGED <<prog, tracer_vars, matrix_vars, plane_vars, eval_vars, ellip_vars,
                      kernel_vars>>

(***************************************************************************)
(* The program: one call of trace_particle, or the calls of one matrix     *)
(* routine that one process runs at once, or the calls of a plane          *)
(* intersector, or one call of an expansion evaluator, of ellipe or ellipk, *)
(* of normal_2d or normal_3d, of legendre, of log_integral, of             *)
(* dr1_potential_radial_ring or of field_radial.                           *)
(***************************************************************************)
Init ==
    \/ /\ prog = "trace_particle"
       /\ pc = "loop"
       /\ TraceInit
       /\ MatrixIdle
       /\ PlaneIdle
       /\ EvalIdle
       /\ EllipIdle
       /\ KernelIdle
    \/ /\ prog = "backend.c trace_particle"
       /\ pc = "loop"
       /\ \E y0 \in StartStates :
          \E b \in { Box(Rat(-1, 1), One), Box(Rat(-3, 200), Rat(3, 200)) } :
          \E ff \in { FieldAt(Rat(1, 200), Zero, Zero),
                      FieldAt(Rat(1, 200), Rat(16000, 7), Rat(16000, 7)) } :
              TraceStart(y0, b, ff, Rat(1, 10), Zero, Rat(85, 1000))
       /\ MatrixIdle
       /\ PlaneIdle
       /\ EvalIdle
       /\ EllipIdle
       /\ KernelIdle
    \/ /\ prog \in {"fill_matrix_radial", "fill_matrix_3d"}
       /\ pc = "calls"
       /\ MatrixInit
       /\ TraceIdle
       /\ PlaneIdle
       /\ EvalIdle
       /\ EllipIdle
       /\ KernelIdle
    \/ /\ prog \in {"xy_plane_intersection_2d", "xy_plane_intersection_3d"}
       /\ pc = "scan"
       /\ PlaneInit
       /\ TraceIdle
       /\ MatrixIdle
       /\ EvalIdle
       /\ EllipIdle
       /\ KernelIdle
    \/ /\ prog \in Evaluators
       /\ pc = "call"
       /\ EvalInit
       /\ TraceIdle
       /\ MatrixIdle
       /\ PlaneIdle
       /\ EllipIdle
       /\ KernelIdle
    \/ /\ prog \in {"ellipe", "ellipk"}
       /\ pc = "call"
       /\ modulus \in { Zero, One, Rat(3, 2), Rat(2, 1) }
       /\ elliptic = Garbage
       /\ TraceIdle
       /\ MatrixIdle
       /\ PlaneIdle
       /\ EvalIdle
       /\ KernelIdle
    \/ /\ prog = "normal_2d"
       /\ pc = "call"
       /\ vertices \in [1..2 -> { Vec(<<Zero, Zero>>), Vec(<<Rat(3, 1), Rat(4, 1)>>),
                                  Vec(<<Rat(3, 1), Zero>>) }]
       /\ normal_out = <<Garbage, Garbage>>
       /\ LegendreIdle
       /\ RingIdle
       /\ TraceIdle
       /\ MatrixIdle
       /\ PlaneIdle
       /\ EvalIdle
       /\ EllipIdle
    \/ /\ prog = "normal_3d"
       /\ pc = "call"
       /\ vertices \in [1..3 -> { Vec(<<Zero, Zero, Zero>>), Vec(<<One, Zero, Zero>>),
                                  Vec(<<Zero, One, Zero>>), Vec(<<Rat(2, 1), Zero, Zero>>) }]
       /\ normal_out = <<Garbage, Garbage, Garbage>>
       /\ LegendreIdle
       /\ RingIdle
       /\ TraceIdle
       /\ MatrixIdle
       /\ PlaneIdle
       /\ EvalIdle
       /\ EllipIdle
    \/ /\ prog = "legendre"
       /\ pc = "call"
       /\ order \in (-1)..MaxOrder
       /\ abscissa \in { Rat(-1, 1), Zero, Rat(1, 2), One }
       /\ legendre_value = Garbage
       /\ quad = <<>>
       /\ requested = {}
       /\ NormalIdle
       /\ RingIdle
       /\ TraceIdle
       /\ MatrixIdle
       /\ PlaneIdle
       /\ EvalIdle
       /\ EllipIdle
    \/ /\ prog = "dr1_potential_radial_ring"
       /\ pc = "call"
       /\ \/ target \in { <<Zero, Zero>>, <<Zero, One>> }
             /\ source \in { <<Zero, Rat(4, 1)>>, <<Rat(3, 1), Zero>>, <<Rat(3, 1), Rat(4, 1)>> }
          \/ target = <<Rat(3, 1), Zero>>
             /\ source \in { <<Zero, Rat(4, 1)>>, <<Rat(3, 1), Zero>> }
       /\ charges = <<>> /\ ring_value = Garbage /\ ring_at = <<>> /\ elliptic_calls = 0
       /\ NormalIdle
       /\ LegendreIdle
       /\ TraceIdle
       /\ MatrixIdle
       /\ PlaneIdle
       /\ EvalIdle
       /\ EllipIdle
    \/ /\ prog = "field_radial"
       /\ pc = "loop"
       /\ target \in { <<Zero, Zero>>, <<Zero, One>>, <<Zero, Rat(4, 1)>> }
       /\ \E n \in 0..MaxVertices :
             /\ source \in [1..n -> { <<<<One, Zero>>, <<Rat(4, 1), Rat(4, 1)>>>>,
                                      <<<<Zero, One>>, <<Zero, Rat(3, 1)>>>> }]
             /\ \E base \in {-3, 1} :
                   charges = [i \in 1..n |-> [c \in 0..(N_QUAD_2D - 1) |-> Rat(base + i + c, 1)]]
       /\ ring_value = Zero /\ ring_at = <<0, 0>> /\ elliptic_calls = 0
       /\ NormalIdle
       /\ LegendreIdle
       /\ TraceIdle
       /\ MatrixIdle
       /\ PlaneIdle
       /\ EvalIdle
       /\ EllipIdle
    \/ /\ prog = "log_integral"
       /\ pc = "loop"
       /\ order = 0 /\ abscissa = Zero /\ legendre_value = Garbage
       /\ quad = [o |-> 0, loop |-> 1, m |-> 0]
       /\ requested = {}
       /\ NormalIdle
       /\ RingIdle
       /\ TraceIdle
       /\ MatrixIdle
       /\ PlaneIdle
       /\ EvalIdle
       /\ EllipIdle

Next ==
    \/ trace_particle \/ backend_Stage
    \* what the two matrix routines share: the assertions and the row that is
    \* no line
    \/ \E w \in Calls : Enter(w)
    \/ \E w \in Calls : Abort(w)
    \/ \E w \in Calls : OutOfRange(w)
    \/ fill_matrix_radial \/ fill_matrix_3d
    \/ PlaneNext \/ PlaneFound \/ PlaneNotFound \/ PlaneAgain
    \/ EvalOutside \/ EvalBeyondTable
    \/ potential_radial_derivs \/ field_radial_derivs
    \/ potential_3d_derivs \/ field_3d_derivs
    \/ ellipe \/ ellipk
    \/ normal_2d \/ normal_3d
    \/ legendre_call \/ log_integral
    \/ dr1_call \/ field_radial

Spec == Init /\ [][Next]_vars

\* the call is one thread of straight-line code: it keeps running
FairSpec == Spec /\ WF_vars(Next)

(***************************************************************************)
(* Properties of trace_particle.                                           *)
(***************************************************************************)
Returned == prog = "trace_particle" /\ pc = "returned"

\* the samples the buffers hold: the caller's and the tracer's
StoredPositions == {i \in DOMAIN positions : positions[i] # GarbageState}

StoredTimes == {i \in DOMAIN times_array : times_array[i] # Garbage}

\* a state lies in the box, by the position alone
Inside(p) ==
    \A axis \in 0..2 : ~Lt(p[axis], bounds[axis][0]) /\ ~Lt(bounds[axis][1], p[axis])

\* C1: trace_particle returns N with 1 <= N <= TRACING_BLOCK_SIZE, N is the
\* number of samples the buffers hold, and no write goes to an index at or
\* beyond TRACING_BLOCK_SIZE.
C1_ReturnsSampleCount ==
    /\ oob = {}
    /\ Returned =>
        /\ ret \in 1..TRACING_BLOCK_SIZE
        /\ ret = Cardinality(StoredPositions)
        /\ ret = Cardinality(StoredTimes)

C1_Witness ==
    /\ Returned
    /\ ret > 1 /\ ret < TRACING_BLOCK_SIZE
    /\ positions[ret - 1] # GarbageState

\* C2: with positions[0] inside the box and a return of N < TRACING_BLOCK_SIZE,
\* positions[N-1] is outside the box and positions[0..N-2] are inside; a trial
\* step is only ever taken from a state inside the box; a start outside the
\* box returns 1 and writes nothing.
C2_LeavesBoxAtLastSample ==
    /\ (Returned /\ Inside(positions[0]) /\ ret < TRACING_BLOCK_SIZE) =>
        /\ ~Inside(positions[ret - 1])
        /\ \A i \in 0..(ret - 2) : Inside(positions[i])
    /\ (prog = "trace_particle" /\ pc \in {"stages", "decide"}) => Inside(y)
    /\ (Returned /\ ~Inside(positions[0])) =>
        /\ ret = 1
        /\ StoredPositions = {0} /\ StoredTimes = {0}

C2_Witness ==
    /\ Returned
    /\ Inside(positions[0])
    /\ ret > 2 /\ ret < TRACING_BLOCK_SIZE
    /\ ~Inside(positions[ret - 1])

\* C3: when TRACING_BLOCK_SIZE - 1 steps are accepted while the particle is
\* in the box, the call has returned exactly TRACING_BLOCK_SIZE, and
\* positions[N-1] and times_array[N-1] hold the last accepted state and time.
C3_BlockFullReturns ==
    (prog = "trace_particle" /\ N >= TRACING_BLOCK_SIZE) =>
        /\ Returned
        /\ ret = TRACING_BLOCK_SIZE
        /\ positions[ret - 1] = y
        /\ times_array[ret - 1] = Add(times_array[ret - 2], h)
        /\ \A i \in 0..(ret - 2) : Inside(positions[i])

C3_Witness ==
    /\ Returned
    /\ ret = TRACING_BLOCK_SIZE
    /\ Inside(y)
    /\ positions[ret - 1] = y

\* C4: index 0 of both buffers is never written; each accepted step writes
\* the one index N and then increments N, so the indices 1 .. N-1 are filled
\* in increasing order, none twice, and every index from N on is untouched.
C4_WritesInOrder ==
    [][ /\ positions'[0] = positions[0]
        /\ times_array'[0] = times_array[0]
        /\ \A i \in DOMAIN positions :
              (positions'[i] # positions[i] \/ times_array'[i] # times_array[i]) =>
                  /\ i = N /\ N' = N + 1
                  /\ positions[i] = GarbageState /\ times_array[i] = Garbage
        /\ N' \in {N, N + 1}
        /\ N' = N + 1 => (N \in StoredPositions' /\ N \in StoredTimes')
        /\ \A i \in DOMAIN positions :
              i >= N' => (positions'[i] = GarbageState /\ times_array'[i] = Garbage)
      ]_vars

C4_Witness ==
    /\ prog = "trace_particle"
    /\ N = 3
    /\ StoredPositions = {0, 1, 2}
    /\ StoredTimes = {0, 1, 2}

EstimateOf(ks) ==
    LET errs == {fabs(SumTo([j \in 0..5 |-> Mul(CT[j], ks[j][i])], 6)) : i \in 0..5}
    IN  CHOOSE e \in errs : \A f \in errs : Leq(f, e)

Deciding == prog = "trace_particle" /\ pc = "decide"

\* C6: a trial step is accepted iff its truncation estimate is at most atol;
\* a rejected step leaves y, N and both buffers as they were, changes only
\* h, and the loop goes round again.
C6_AcceptIffWithinTolerance ==
    [][ Deciding =>
          /\ (N' = N + 1) <=> Leq(EstimateOf(k), atol)
          /\ Lt(atol, EstimateOf(k)) =>
                /\ y' = y /\ N' = N
                /\ positions' = positions /\ times_array' = times_array
                /\ pc' = "loop"
      ]_vars

C6_Witness ==
    /\ prog = "trace_particle" /\ pc = "loop"
    /\ N >= 2
    /\ Lt(atol, TE)
    /\ h # hmax

\* the grid value nearest to min(0.9*h*(tol/te)^(1/5), hmax_) is g: the
\* exact value lies within half a grid step of g, or it is hmax_ or more
\* and g = hmax_
NearestStep(g, h_, te, tol, hmax_) ==
    LET u == Div(hmax_, Rat(HRes, 1))
        half == Div(u, Rat(2, 1))
        x == Div(tol, te)
        scale(a) == Pow5(Div(Mul(Rat(10, 9), a), h_), 5)
    IN  /\ Leq(g, hmax_)
        /\ Leq(scale(Sub(g, half)), x) \/ Leq(Sub(g, half), Zero)
        /\ g # hmax_ => Leq(x, scale(Add(g, half)))

\* the velocity the call started with
StartVelocity == [i \in 0..2 |-> positions[0][3 + i]]

SquaredNorm(v) == Add(Add(Mul(v[0], v[0]), Mul(v[1], v[1])), Mul(v[2], v[2]))

C8_Terminates == <>(prog = "trace_particle" => pc = "returned")

\* the field is zero everywhere
FreeFlight == \A i \in 0..2 : field.lo[i] = Zero /\ field.hi[i] = Zero

\* TRACING_BLOCK_SIZE as the source has it
SourceBlockSize == 100000

RowsOf(w) == lines_range_start[w]..lines_range_end[w]

\* the rows the calls were asked to fill
RequestedRows == UNION {RowsOf(w) : w \in Calls}

\* C10: an excitation tag outside {1, 2, 3, 4} on a row of the requested
\* range is fatal in fill_matrix_radial and in fill_matrix_3d: the call does
\* not return normally.
C10_UnknownTagIsFatal ==
    (FillingMatrix /\ pc = "returned") =>
        \A r \in RequestedRows : excitation_types[r] \in {1, 2, 3, 4}

\* the shape arguments are those of the Q*N_lines x Q*N_lines matrix and
\* every range lies inside the lines
WellShaped ==
    /\ FillingMatrix
    /\ N_matrix = Q * N_lines
    /\ \A w \in Calls : RangeAsserted(lines_range_start[w], lines_range_end[w], N_lines)

\* the row of the matrix that flat index c lies in
RowOfCell(c) == c \div (Q * N_lines)

\* rows Q*row_start .. Q*row_end+Q-1 of call w
OwnRows(w) == (Q * lines_range_start[w])..(Q * lines_range_end[w] + Q - 1)

DisjointRanges ==
    \A v \in Calls : \A w \in Calls \ {v} : RowsOf(v) \cap RowsOf(w) = {}

\* the ranges of the calls are a partition of 0..N_lines-1
Partition == DisjointRanges /\ RequestedRows = 0..(N_lines - 1)

\* the diagonal cells of the dielectric rows of call w of fill_matrix_3d
DielectricDiagonal(w) ==
    {i * N_matrix + i : i \in {r \in RowsOf(w) : excitation_types[r] = DIELECTRIC}}

\* what one call with the range first..last leaves in the buffer: the row
\* loop of either routine, then the loop of fill_self_voltages
RECURSIVE RowsFilled(_, _, _)
RowsFilled(buffer, i_, last) ==
    IF i_ > last THEN buffer
    ELSE RowsFilled(
            IF prog = "fill_matrix_radial"
            THEN IF IsVoltageType(excitation_types[i_])
                 THEN WriteAll(buffer, RadialWrites(i_, N_lines, N_matrix))
                 ELSE buffer
            ELSE IF IsVoltageType(excitation_types[i_])
                 THEN WriteAll(buffer, VoltageWrites3D(i_, N_lines, N_matrix))
                 ELSE MinusOne(WriteAll(buffer,
                          DielectricWrites3D(i_, N_lines, N_matrix, excitation_values)),
                          i_ * N_matrix + i_),
            i_ + 1, last)

RECURSIVE SelfFilled(_, _, _)
SelfFilled(buffer, i_, last) ==
    IF i_ > last THEN buffer
    ELSE SelfFilled(WriteAll(buffer, SelfWrites(i_, N_matrix)), i_ + 1, last)

SingleCall(first, last) ==
    IF prog = "fill_matrix_radial"
    THEN SelfFilled(RowsFilled([c \in DOMAIN matrix |-> Unwritten], first, last),
                    first, last)
    ELSE RowsFilled([c \in DOMAIN matrix |-> Unwritten], first, last)

\* what C11 has apart from the loads: stores stay in the call's own rows,
\* calls with disjoint ranges touch disjoint cells, and the calls of a
\* partition leave what one call with the range 0..N_lines-1 leaves
OwnRowsOnly ==
    WellShaped =>
        /\ \A w \in Calls : \A c \in written[w] : RowOfCell(c) \in OwnRows(w)
        /\ DisjointRanges =>
               \A v \in Calls : \A w \in Calls \ {v} :
                   (written[v] \cup loaded[v]) \cap (written[w] \cup loaded[w]) = {}
        /\ (pc = "returned" /\ Partition) => matrix = SingleCall(0, N_lines - 1)

\* C11 (as amended): a call of fill_matrix_radial (Q = 8) or fill_matrix_3d
\* (Q = 1) with N_matrix = Q*N_lines and a range inside the lines stores only
\* to cells of rows Q*row_start .. Q*row_end+Q-1, and the only cell it
\* loads from is the diagonal cell of a dielectric row of its own range in
\* fill_matrix_3d, which it has stored to just before; concurrent calls with
\* pairwise disjoint ranges touch pairwise disjoint cells, and the calls of
\* a partition of 0..N-1 leave, in any interleaving, the matrix that one
\* call with the range 0..N-1 leaves.
C11_DisjointRangesDisjointCells ==
    /\ OwnRowsOnly
    /\ WellShaped =>
           \A w \in Calls :
               /\ loaded[w] \subseteq written[w]
               /\ loaded[w] \subseteq DielectricDiagonal(w)
               /\ prog = "fill_matrix_radial" => loaded[w] = {}

\* two calls at once over a partition of two lines have returned, one of
\* them having filled a dielectric row
C11_Witness ==
    /\ prog = "fill_matrix_3d" /\ pc = "returned"
    /\ Cardinality(Calls) = 2 /\ N_lines = 2
    /\ Partition
    /\ \E w \in Calls : loaded[w] # {}
    /\ \A w \in Calls : written[w] # {}

\* C11 as stated: the same, and a call reads no matrix cell at all
C11_ReadsNoCell ==
    /\ OwnRowsOnly
    /\ WellShaped => \A w \in Calls : loaded[w] = {}

\* C12: for a segment tagged Dielectric (3) with value K, fill_matrix_radial
\* either fills its rows by the dielectric rule (the factor (2K-2)/(pi(1+K))
\* times the field-dot-normal integral, 1 subtracted on the diagonal) or
\* refuses the configuration; it never returns normally having filled those
\* rows some other way or having left their off-diagonal cells unwritten.
C12_DielectricFilledOrRefused ==
    (prog = "fill_matrix_radial" /\ WellShaped /\ pc = "returned") =>
        \A r \in {i \in RequestedRows : excitation_types[i] = DIELECTRIC} :
        \A l \in 0..(N_QUAD_2D - 1), j \in 0..(N_lines - 1), c \in 0..(N_QUAD_2D - 1) :
            \E cell \in {matrix[(N_QUAD_2D * r + l) * N_matrix + N_QUAD_2D * j + c]} :
                /\ cell.routine = "field_dot_normal_radial"
                /\ cell.factor = DielectricFactor(excitation_values[r])
                /\ cell.plus = (IF r = j /\ l = c THEN -1 ELSE 0)

\* the rows of call w whose pass of the row loop is over
RowsDone(w) == {i \in RowsOf(w) : at[w] # "assert" /\ i < row[w]}

\* C13: in fill_matrix_3d every row i of the range is written in all N
\* columns: a voltage-type row (tags 1, 2 and 4 alike) holds at (i,j) the
\* potential integral over triangle j at the centroid of i, j = i included;
\* a Dielectric row with value K holds factor times the field-dot-normal
\* integral over triangle j at the centroid of i with the normal of i, less
\* 1 for j = i, with factor = (2K-2)/(pi(1+K)).
C13_Rows3D ==
    (prog = "fill_matrix_3d" /\ WellShaped) =>
        \A w \in Calls : \A i \in RowsDone(w) : \A j \in 0..(N_lines - 1) :
            \E cell \in {matrix[i * N_matrix + j]} :
            \E K \in {excitation_values[i]} :
                /\ cell.i = i /\ cell.j = j
                /\ excitation_types[i] \in {1, 2, 4} =>
                       /\ cell.routine = "triangle_integral_potential_3d_point"
                       /\ cell.plus = 0 /\ cell.factor = One
                /\ excitation_types[i] = 3 =>
                       /\ cell.routine = "field_dot_normal_3d"
                       /\ cell.normal = i
                       /\ cell.factor =
                              Div(Sub(Mul(Rat(2, 1), K), Rat(2, 1)), Add(One, K))
                       /\ cell.plus = (IF i = j THEN -1 ELSE 0)
                /\ excitation_types[i] \in {1, 2, 3, 4}

\* one call has returned from a voltage row and a dielectric row
C13_Witness ==
    /\ prog = "fill_matrix_3d" /\ WellShaped /\ pc = "returned"
    /\ Cardinality(Calls) = 1
    /\ \E i \in RowsDone(1) : excitation_types[i] = FLOATING_CONDUCTOR
    /\ \E i \in RowsDone(1) : excitation_types[i] = DIELECTRIC

\* a call of fill_matrix_radial whose shape arguments are wrong
BadRadialShape(w) ==
    \/ N_matrix # 8 * N_lines
    \/ lines_range_start[w] \notin 0..(N_lines - 1)
    \/ lines_range_end[w] \notin 0..(N_lines - 1)

\* C14: fill_matrix_radial validates its shape arguments at the boundary: a
\* call with N_matrix # 8*N_lines, or with row_start or row_end outside
\* 0..N_lines-1 (negative values included), is rejected before any matrix
\* cell is written.
C14_ShapeRejected ==
    prog = "fill_matrix_radial" =>
        \A w \in {v \in Calls : BadRadialShape(v)} :
            /\ at[w] = "assert"
            /\ written[w] = {}
            /\ \A c \in DOMAIN matrix : matrix[c] = Unwritten

\* the same in the build where assert is code
C14_WithAssertions == NDEBUG \/ C14_ShapeRejected

(***************************************************************************)
(* Properties of the plane intersectors.                                   *)
(***************************************************************************)
Intersecting == prog \in {"xy_plane_intersection_2d", "xy_plane_intersection_3d"}

\* z-coordinate of state n of the trajectory
ZOf(n) == positions_p[n][ZIndex]

\* z lies between a and b, both ends included
Between(a, b, z_) ==
    \/ Leq(a, z_) /\ Leq(z_, b)
    \/ Leq(b, z_) /\ Leq(z_, a)

\* the pairs (n, n+1) of consecutive states with the plane between them
StraddlingPairs ==
    {n \in 1..(N_p - 1) : Between(ZOf(n), ZOf(n + 1), plane_z)}

\* the trajectory is the caller's own: every component is a number
FiniteTrajectory ==
    \A n \in 1..N_p : \A c \in 0..(Width - 1) : positions_p[n][c] # NaN

\* C15: the intersectors return false if and only if no consecutive pair of
\* stored states has z* between their z-coordinates, both ends included; in
\* particular they return false for N_p <= 1, and when they return false
\* the result buffer is not written.
C15_FalseIffNoPairStraddles ==
    (Intersecting /\ pc = "returned" /\ FiniteTrajectory) =>
        /\ hit <=> StraddlingPairs # {}
        /\ N_p <= 1 => ~hit
        /\ ~hit => \A c \in 0..(Width - 1) : result[c] = Garbage

\* a call on four states has returned false, and the plane is the
\* z-coordinate of no state
C15_Witness ==
    /\ Intersecting /\ pc = "returned" /\ pass = "first"
    /\ N_p = 4 /\ ~hit
    /\ \A n \in 1..N_p : ZOf(n) # plane_z
    /\ \E n \in 1..N_p : Lt(ZOf(n), plane_z)

\* the interpolation of C16 between states n and n+1
Lambda(n) ==
    fabs(Div(Sub(plane_z, ZOf(n)), Sub(ZOf(n), ZOf(n + 1))))

\* C16: when the intersector returns true, the result is the linear
\* interpolation of all components between the straddling pair with the
\* highest index, at lambda = |z*-z1|/|z1-z2| with 0 <= lambda <= 1, and the
\* z-component of the result equals z*; states z = (0, 0.5, 1.5, 2.5) at
\* z* = 1.0 give lambda = 0.5 between the second and third states.
C16_InterpolatesHighestPair ==
    (Intersecting /\ pc = "returned" /\ pass = "first" /\ hit) =>
        \E n \in StraddlingPairs :
            /\ \A later \in StraddlingPairs : later <= n
            /\ ZOf(n) # ZOf(n + 1)
            /\ Leq(Zero, Lambda(n)) /\ Leq(Lambda(n), One)
            /\ \A c \in 0..(Width - 1) :
                   result[c] = Add(positions_p[n][c],
                                   Mul(Lambda(n),
                                       Sub(positions_p[n + 1][c], positions_p[n][c])))
            /\ result[ZIndex] = plane_z
            /\ ( /\ N_p = 4 /\ plane_z = One
                 /\ ZOf(1) = Zero /\ ZOf(2) = Rat(1, 2)
                 /\ ZOf(3) = Rat(3, 2) /\ ZOf(4) = Rat(5, 2) )
               => n = 2 /\ Lambda(n) = Rat(1, 2)

\* C17: plane intersection is idempotent: if the intersector returns point p
\* for a trajectory at z*, then applying it again at z* to the trajectory
\* with p inserted between the two states it was interpolated from, or to
\* the two-state trajectory of either of those states and p, returns true
\* and the same point p.
C17_Idempotent ==
    (Intersecting /\ pc = "returned" /\ pass \in {"inserted", "earlier", "later"}) =>
        hit /\ result = first_point

\* the highest straddling pair of the call, zero if there is none
HighestPair ==
    IF StraddlingPairs = {} THEN 0
    ELSE CHOOSE n \in StraddlingPairs : \A later \in StraddlingPairs : later <= n

\* what C16 says holds whenever the two states of the pair differ in z
C16_UnlessPairInPlane ==
    (/\ Intersecting /\ pc = "returned" /\ pass = "first" /\ hit
     /\ ZOf(HighestPair) # ZOf(HighestPair + 1))
        => C16_InterpolatesHighestPair

\* what C17 says holds whenever the point is the only state in the plane
C17_UnlessStateInPlane ==
    (/\ Intersecting /\ pc = "returned"
     /\ pass \in {"inserted", "earlier", "later"}
     /\ Cardinality({n \in 1..N_p : ZOf(n) = plane_z}) = 1)
        => C17_Idempotent

(***************************************************************************)
(* Properties of the expansion evaluators.                                 *)
(***************************************************************************)
\* z is not strictly inside (z_grid[0], z_grid[Nz-1])
OutsideGrid == Leq(point.z, z_inter[0]) \/ Leq(z_inter[N_z - 1], point.z)

IntervalOf(z_) ==
    CHOOSE n \in 0..(N_z - 2) : Leq(z_inter[n], z_) /\ Lt(z_, z_inter[n + 1])

\* D_i(z): coefficient row i of the z-interval containing z, evaluated at
\* z - z_grid[index]
AxialDerivative(i_) ==
    CHOOSE d \in
        { Add(Add(Add(Add(Add(
              Mul(Coeff2D(table, p[1], i_, 0),
                  Mul(p[2], Mul(p[2], Mul(p[2], Mul(p[2], p[2]))))),
              Mul(Coeff2D(table, p[1], i_, 1), Mul(p[2], Mul(p[2], Mul(p[2], p[2]))))),
              Mul(Coeff2D(table, p[1], i_, 2), Mul(p[2], Mul(p[2], p[2])))),
              Mul(Coeff2D(table, p[1], i_, 3), Mul(p[2], p[2]))),
              Mul(Coeff2D(table, p[1], i_, 4), p[2])),
              Coeff2D(table, p[1], i_, 5)) :
          p \in {<<n, Sub(point.z, z_inter[n])>> : n \in {IntervalOf(point.z)}} } : TRUE

C20_EllipeOfOne ==
    (prog = "ellipe" /\ pc = "returned" /\ modulus = One) => elliptic = One

\* the triangle of normal_3d has no area: its edges from p1 are parallel
ZeroArea ==
    \E a \in {[c \in 0..2 |-> Sub(vertices[2][c], vertices[1][c])]} :
    \E b \in {[c \in 0..2 |-> Sub(vertices[3][c], vertices[1][c])]} :
        /\ Mul(a[1], b[2]) = Mul(b[1], a[2])
        /\ Mul(b[0], a[2]) = Mul(a[0], b[2])
        /\ Mul(a[0], b[1]) = Mul(b[0], a[1])

\* C21: domain violations never return quietly: ellipk called with m >= 1,
\* normal_2d called with a zero-length segment (p1 = p2) and normal_3d called
\* with a zero-area triangle each abort instead of returning a value
\* (infinity or NaN) to the caller.
C21_DomainViolationsAbort ==
    /\ (prog = "ellipk" /\ Leq(One, modulus)) => pc # "returned"
    /\ (prog = "normal_2d" /\ vertices[1] = vertices[2]) => pc # "returned"
    /\ (prog = "normal_3d" /\ ZeroArea) => pc # "returned"

\* the same for each of the three routines alone
C21_EllipkAborts == (prog = "ellipk" /\ Leq(One, modulus)) => pc # "returned"
C21_Normal2dAborts == (prog = "normal_2d" /\ vertices[1] = vertices[2]) => pc # "returned"
C21_Normal3dAborts == (prog = "normal_3d" /\ ZeroArea) => pc # "returned"

\* what the three routines return on a domain violation is NaN
C21_ReturnsNaN ==
    /\ (prog = "ellipk" /\ pc = "returned" /\ Leq(One, modulus)) => elliptic = NaN
    /\ (prog = "normal_2d" /\ pc = "returned" /\ vertices[1] = vertices[2])
           => normal_out = <<NaN, NaN>>
    /\ (prog = "normal_3d" /\ pc = "returned" /\ ZeroArea)
           => normal_out = <<NaN, NaN, NaN>>
    /\ (prog = "normal_2d" /\ pc = "returned" /\ vertices[1] # vertices[2])
           => \A c \in 1..2 : normal_out[c] # NaN /\ ~IsInf(normal_out[c])
    /\ (prog = "normal_3d" /\ pc = "returned" /\ ~ZeroArea)
           => \A c \in 1..3 : normal_out[c] # NaN /\ ~IsInf(normal_out[c])
    /\ (prog = "ellipk" /\ pc = "returned" /\ modulus = Zero)
           => elliptic = Rat(15709, 10000)

(***************************************************************************)
(* Properties of legendre.                                                 *)
(***************************************************************************)
\* C22: legendre(n, x) returns a value for every n in 0..8 and terminates
\* the process instead of returning for every n >= 9; log_integral and
\* legendre_coefficient only ever request orders 0..7, so the assembly of
\* the matrix never reaches the fatal branch.
C22_LegendreOrders ==
    /\ (prog = "legendre" /\ pc # "call") =>
           /\ order \in 0..8 => (pc = "returned" /\ legendre_value # Garbage)
           /\ order >= 9 => (pc = "exit" /\ legendre_value = Garbage)
    /\ prog = "log_integral" => (requested \subseteq 0..7 /\ pc # "exit")

\* legendre has exited for order 9
C22_Witness == prog = "legendre" /\ pc = "exit" /\ order = 9

\* legendre has returned for order 8; log_integral has returned after
\* requesting every order of 0..7
C22_Returned8 == prog = "legendre" /\ pc = "returned" /\ order = 8
C22_AllRequested == prog = "log_integral" /\ pc = "returned" /\ requested = 0..7

(***************************************************************************)
(* Properties of the stages of a trial step.                               *)
(***************************************************************************)
\* B_{j,i}, the weight of k_i in the state of stage j
Tableau(j, i_) ==
    CASE j = 1 -> B2[i_] [] j = 2 -> B3[i_] [] j = 3 -> B4[i_]
      [] j = 4 -> B5[i_] [] j = 5 -> B6[i_]

\* y[c] + sum over i < n of B_{j,i}*k_i[c]
RECURSIVE StageSum(_, _, _)
StageSum(j, c, n) ==
    IF n = 0 THEN y[c]
    ELSE Add(StageSum(j, c, n - 1), Mul(Tableau(j, n - 1), k[n - 1][c]))

\* C23: in every Runge-Kutta stage j (0..5) of a trial step, the stage state
\* is ys[j] = y + sum over i < j of B_{j,i}*k_i, the position part of k_j is h
\* times the velocity part of that same stage state, and the velocity part
\* of k_j is h*EM*E(ys[j]); stage 0 uses the current velocity y[3..5].
C23_StageEquations ==
    (prog = "trace_particle" /\ pc = "stages") =>
        \A j \in 0..(index - 1) :
            /\ \A c \in 0..5 : ys[j][c] = StageSum(j, c, j)
            /\ \A c \in 0..2 : k[j][c] = Mul(h, ys[j][3 + c])
            /\ \A c \in 0..2 : k[j][3 + c] = Mul(Mul(h, EM), field_fun(field, ys[j])[c])
            /\ j = 0 => \A c \in 0..2 : k[0][c] = Mul(h, y[3 + c])

\* the six stages of a trial step are done, in a field that is not zero, and
\* the state of the last stage differs from y in position and in velocity
C23_Witness ==
    /\ prog = "trace_particle" /\ pc = "stages" /\ index = 6
    /\ ys[5][2] # y[2] /\ ys[5][5] # y[5]
    /\ k[5][5] # Zero

(***************************************************************************)
(* Properties of field_3d_derivs on the axis.                              *)
(***************************************************************************)
\* coefficient c of mode (nu, m) of the cosine (a = 0) or sine (a = 1) part
\* in the interval the call reads
ModeCoeff(a, nu, m, c) == Coeff3D(table, IntervalOf(point.z), a, nu, m, c)

\* the cubic of mode (nu, m) at d = z - z_inter[index]
ModeValue(a, nu, m) ==
    CHOOSE v \in
        { Add(Mul(Add(Mul(Add(Mul(ModeCoeff(a, nu, m, 0), d), ModeCoeff(a, nu, m, 1)), d),
                      ModeCoeff(a, nu, m, 2)), d), ModeCoeff(a, nu, m, 3)) :
          d \in {Sub(point.z, z_inter[IntervalOf(point.z)])} } : TRUE

\* its derivative in z
ModeDerivative(a, nu, m) ==
    CHOOSE v \in
        { Add(Mul(Add(Mul(Mul(Rat(3, 1), ModeCoeff(a, nu, m, 0)), d),
                      Mul(Rat(2, 1), ModeCoeff(a, nu, m, 1))), d),
              ModeCoeff(a, nu, m, 2)) :
          d \in {Sub(point.z, z_inter[IntervalOf(point.z)])} } : TRUE

C25_RingOnAxis ==
    /\ prog = "dr1_potential_radial_ring" /\ pc = "returned"
    /\ target[1] = Zero /\ source[1] # Zero
C25_RingOffAxis ==
    /\ prog = "dr1_potential_radial_ring" /\ pc = "returned"
    /\ target[1] # Zero /\ elliptic_calls = 2

(***************************************************************************)
(* Properties of the rows of fill_matrix_radial.                           *)
(***************************************************************************)
\* one call of fill_matrix_radial on a well-shaped matrix whose range holds
\* voltage-type segments only
VoltageRange ==
    /\ prog = "fill_matrix_radial" /\ WellShaped /\ Calls = {1}
    /\ \A i \in RowsOf(1) : excitation_types[i] \in {1, 2, 4}

\* C26: after fill_matrix_radial over a range [a, b] in which every segment
\* has a voltage-type tag (1, 2 or 4), every cell of rows 8a..8b+7 across all
\* 8N columns has been assigned exactly once: the off-diagonal 8x8 blocks
\* (j # i) by the Gauss loop and the diagonal 8x8 block (j = i) by
\* fill_self_voltages via log_integral; no cell in those rows is left
\* unwritten and none is written by both.
C26_RowsAssignedOnce ==
    VoltageRange =>
        /\ \A i \in RowsOf(1) :
              \E gauss \in {RadialWrites(i, N_lines, N_matrix)},
                 self \in {SelfWrites(i, N_matrix)} :
                  /\ Cardinality(Indices(gauss)) = Cardinality(gauss)
                  /\ Cardinality(Indices(self)) = Cardinality(self)
                  /\ Indices(gauss) \cap Indices(self) = {}
                  /\ Cardinality(gauss) + Cardinality(self) = N_QUAD_2D * N_matrix
        /\ pc = "returned" =>
              /\ written[1] = {r * N_matrix + col : r \in OwnRows(1), col \in 0..(N_matrix - 1)}
              /\ \A r \in OwnRows(1) : \A col \in 0..(N_matrix - 1) :
                    \E cell \in {matrix[r * N_matrix + col]} :
                        /\ cell # Unwritten
                        /\ cell.routine = IF col \div N_QUAD_2D = r \div N_QUAD_2D
                                          THEN "log_integral" ELSE "potential_radial_ring"
                        /\ cell.i = r \div N_QUAD_2D /\ cell.l = r % N_QUAD_2D
                        /\ cell.j = col \div N_QUAD_2D /\ cell.k = col % N_QUAD_2D

\* the call has returned from both rows of a matrix of two segments, fixed
\* voltage on one and a floating conductor on the other
C26_Witness ==
    /\ VoltageRange /\ pc = "returned"
    /\ N_lines = 2 /\ RowsOf(1) = 0..1
    /\ excitation_types[0] = VOLTAGE_FIXED /\ excitation_types[1] = FLOATING_CONDUCTOR

(***************************************************************************)
(* Properties of the stores of fill_matrix_3d.                             *)
(***************************************************************************)
\* the cells fill_matrix_3d has stored to lie in the buffer, each in the row
\* and the column of the N_lines x N_lines matrix that its store names, the
\* row in the range of a call
StoresInsideRows ==
    /\ stray = {}
    /\ \A c \in DOMAIN matrix :
          matrix[c] # Unwritten =>
              /\ matrix[c].i = c \div N_lines /\ matrix[c].j = c % N_lines
              /\ \E w \in Calls : matrix[c].i \in RowsOf(w)

\* C27: every write of fill_matrix_3d goes to flat index i*N_matrix + j with
\* row_start <= i <= row_end and 0 <= j < N_lines, and that index lies
\* inside the N_lines x N_lines matrix and inside row i of it, for every
\* value of N_matrix the function accepts (the function does not check
\* N_matrix = N_lines).
C27_WritesInsideRow ==
    (prog = "fill_matrix_3d" /\ \A w \in Calls : Asserted(w)) => StoresInsideRows

\* it is so when N_matrix = N_lines
C27_WhenSquare ==
    (prog = "fill_matrix_3d" /\ WellShaped) => StoresInsideRows

\* a call with N_matrix = N_lines + 1 stores past the end of the matrix
C27_NoStoreOutside ==
    (prog = "fill_matrix_3d" /\ \A w \in Calls : Asserted(w)) => stray = {}

(***************************************************************************)
(* Properties of the interval index of the evaluators.                     *)
(***************************************************************************)
\* an evaluator has gone past its range check on a grid of two points or more
PastRangeCheck ==
    /\ prog \in Evaluators /\ pc # "call"
    /\ N_z >= 2 /\ InsideGrid(z_inter, N_z, point.z)

\* the index is a row of the table and z - z_inter[index] is in [0, dz)
IndexInTable ==
    /\ RowRead \in 0..(N_z - 2) /\ rows_read \subseteq 0..(N_z - 2)
    /\ Leq(Zero, DiffZ) /\ Lt(DiffZ, Sub(z_inter[1], z_inter[0]))

\* C28: in the four expansion evaluators, for a uniform increasing z-grid
\* with N_z >= 2 and any z passing the range check z_grid[0] < z <
\* z_grid[N_z-1], the interval index floor((z - z_grid[0])/dz) satisfies
\* 0 <= index <= N_z-2, so that the coefficient table and the grid are never
\* indexed out of bounds, and 0 <= z - z_grid[index] < dz.
C28_IndexInTable == PastRangeCheck => IndexInTable

\* it is so whenever the subtraction z - z0 of line 495 is exact
C28_UnlessRounded ==
    (PastRangeCheck /\ RoundD(Sub(point.z, z_inter[0])) = Sub(point.z, z_inter[0]))
        => IndexInTable

\* a call past the range check has read no row but those the table has
C28_NoRowBeyondTable == PastRangeCheck => rows_read \subseteq 0..(N_z - 2)

\* a call past the range check has read the row of the interval that holds z
C28_RowOfInterval == (PastRangeCheck /\ pc = "returned") => rows_read = {IntervalOf(point.z)}

(***************************************************************************)
(* Properties of the stage loop in the two files.                          *)
(***************************************************************************)
\* a trial step of either file is in its stage loop, or has left it by a
\* read outside the stage arrays
InStageLoop ==
    /\ prog \in {"trace_particle", "backend.c trace_particle"}
    /\ pc \in {"stages", "undefined"}

\* the stages done so far have stored rows 0..index-1 of ys and k and no
\* other, row j of k from row j of ys and the step size h, row 0 of ys from
\* y alone, and no row outside 0..5 was read or written
StageRows ==
    /\ stage_rows \subseteq 0..5
    /\ index \in 0..6
    /\ index = 1 => stage_rows = {0}
    /\ \A j \in index..5 : k[j] = ZeroStages[j] /\ ys[j] = ZeroStages[j]
    /\ \A j \in 0..(index - 1) : \A c \in 0..2 : k[j][c] = Mul(h, ys[j][3 + c])
    /\ index >= 1 => ys[0] = y

\* C29: in trace_particle each of the six stages j = 0..5 of a trial step
\* calls produce_new_y and produce_new_k with stage index j and the current
\* step size h, and every read or write of the stage arrays ks and ys uses a
\* row index in 0..5 (stage 0 reads no earlier stage and no tableau row).
C29_StageRows == InStageLoop => StageRows

\* it is so in traceon-backend.c
C29_InCurrentFile == (InStageLoop /\ prog = "trace_particle") => StageRows

\* the six stages of a trial step of traceon-backend.c are done
C29_SixStages == ~(prog = "trace_particle" /\ pc = "stages" /\ index = 6 /\ k[5][5] # Zero)

\* C23 in either file: the position part of k_j is h times the velocity
\* part of ys[j]
C23_InEitherFile ==
    InStageLoop =>
        \A j \in 0..(index - 1) : \A c \in 0..2 : k[j][c] = Mul(h, ys[j][3 + c])

(***************************************************************************)
(* Properties of a call of fill_matrix_3d that meets an unknown tag.       *)
(***************************************************************************)
\* call w stands at a row of its range whose tag is none of the enum, and
\* the process has exited
StoppedAt(w) ==
    /\ prog = "fill_matrix_3d" /\ WellShaped /\ pc = "exit"
    /\ at[w] = "rows" /\ row[w] \in RowsOf(w)
    /\ excitation_types[row[w]] \notin {1, 2, 3, 4}

C30_AlwaysChanged ==
    \A w \in Calls : (Cardinality(Calls) = 1 /\ StoppedAt(w)) =>
        \E c \in DOMAIN matrix : matrix[c] # Unwritten

====
